---- MODULE Spec2Model ----
(***************************************************************************)
(* A model of the node tree of acd-go (package node) and of its upload     *)
(* pipeline.                                                               *)
(*                                                                         *)
(* The tree is modelled with the memory the Go code works on: Node objects *)
(* live in a heap and are referred to by address, the children container   *)
(* of a Node (its Nodes map) is a map object of its own that two Node      *)
(* objects can share, and the tree holds the root pointer, the id index    *)
(* (nodeIdMap) and the checkpoint.                                         *)
(***************************************************************************)
EXTENDS Integers, Sequences, FiniteSets, TLC

(***************************************************************************)
(* Bounds of the model.                                                    *)
(***************************************************************************)
\* node records folded by Sync in one run of the process
MaxDeltas == 2
\* lines read from one change stream
MaxLines == 1
\* node records carried by one line of the change stream
MaxNodes == 2
\* background ticks of one process
MaxTicks == 1
\* process restarts (the cache file survives a restart)
MaxRestarts == 1
\* chunks the reader of an upload yields
MaxChunks == 2
\* segments of a path handed to MkDirAll
MaxDepth == 3
\* Ids of the longest list handed to PurgeNodes.
MaxIds == 123

(***************************************************************************)
(* Values.                                                                 *)
(***************************************************************************)
StatusAvailable == "AVAILABLE"
StatusTrash == "TRASH"
KindFile == "FILE"
KindFolder == "FOLDER"

\* strings.ToLower on the names the model uses
ToLower(s) ==
    CASE s \in {"Doc", "DOC"} -> "doc"
      [] s \in {"Pic", "PIC"} -> "pic"
      [] OTHER -> s

\* the keys a Nodes map can have
LowerNames == {"", "doc", "pic"}

EmptyMap == [x \in {} |-> 0]

Put(f, k, v) == [x \in (DOMAIN f) \cup {k} |-> IF x = k THEN v ELSE f[x]]

Del(f, k) == [x \in (DOMAIN f) \ {k} |-> f[x]]

\* The fields of a Node that the server sends (the Nodes map is never sent).
RootId == "r"

RootNode ==
    [Id |-> RootId, Name |-> "", Kind |-> KindFolder, Status |-> StatusAvailable,
     Parents |-> <<>>, IsRoot |-> TRUE]

\* The records the server can deliver for the two non-root ids: "a" is a
\* folder directly under the root, "b" a file under the root, under "a" or
\* under both; either can be renamed, trashed and delivered in any order.
NodeIds == {"a", "b"}

NamesOf(id) == IF id = "a" THEN {"Doc", "Pic"} ELSE {"Doc"}

KindOf(id) == IF id = "a" THEN KindFolder ELSE KindFile

ParentsOf(id) == IF id = "a" THEN {<<"r">>} ELSE {<<"r">>, <<"a">>, <<"r", "a">>}

Deltas ==
    {RootNode} \cup
    UNION {{[Id |-> i, Name |-> n, Kind |-> KindOf(i), Status |-> s,
             Parents |-> p, IsRoot |-> FALSE]
              : n \in NamesOf(i), s \in {StatusAvailable, StatusTrash}, p \in ParentsOf(i)}
            : i \in NodeIds}

\* &Node{Id: parentId}: every other field has its zero value.
Placeholder(id) ==
    [Id |-> id, Name |-> "", Kind |-> "", Status |-> "", Parents |-> <<>>,
     IsRoot |-> FALSE, Nodes |-> 0]

\* A Node object made from a record of the server: its Nodes map is nil (0).
Obj(fields, nodes) ==
    [Id |-> fields.Id, Name |-> fields.Name, Kind |-> fields.Kind,
     Status |-> fields.Status, Parents |-> fields.Parents,
     IsRoot |-> fields.IsRoot, Nodes |-> nodes]

Fields(o) ==
    [Id |-> o.Id, Name |-> o.Name, Kind |-> o.Kind, Status |-> o.Status,
     Parents |-> o.Parents, IsRoot |-> o.IsRoot]

(***************************************************************************)
(* The tree and the memory it refers to.  A tree value t has               *)
(*   t.heap       the Node objects, by address (0 is nil)                  *)
(*   t.maps       the Nodes maps, by map address (0 is the nil map)        *)
(*   t.Node       the embedded *Node of Tree: the root pointer             *)
(*   t.nodeIdMap  the id index, id -> address                              *)
(*   t.Checkpoint the checkpoint, 0 for the empty string                   *)
(***************************************************************************)
EmptyTree ==
    [heap |-> <<>>, maps |-> <<>>, Node |-> 0, nodeIdMap |-> EmptyMap, Checkpoint |-> 0]

IsAvailable(n) == n.Status = StatusAvailable

IsDir(n) == n.Kind = KindFolder

\* the children of the object at address a, as a function name -> address
Kids(t, a) == IF t.heap[a].Nodes = 0 THEN EmptyMap ELSE t.maps[t.heap[a].Nodes]

\* Node.addChild: makes the map when it is nil, then stores the child under
\* its lowercased name.
addChild(t, p, c) ==
    LET t1 == IF t.heap[p].Nodes = 0
              THEN [t EXCEPT !.maps = Append(@, EmptyMap),
                             !.heap[p].Nodes = Len(t.maps) + 1]
              ELSE t
        m == t1.heap[p].Nodes
    IN  [t1 EXCEPT !.maps[m] = Put(@, ToLower(t.heap[c].Name), c)]

\* Node.removeChild: deletes the key of the child's lowercased name, whatever
\* object is stored under it.
removeChild(t, p, name) ==
    IF t.heap[p].Nodes = 0
    THEN t
    ELSE [t EXCEPT !.maps[t.heap[p].Nodes] = Del(@, ToLower(name))]

RECURSIVE removeFromParents(_, _, _, _)
removeFromParents(t, parents, name, i) ==
    IF i > Len(parents)
    THEN t
    ELSE removeFromParents(
             IF parents[i] \in DOMAIN t.nodeIdMap
             THEN removeChild(t, t.nodeIdMap[parents[i]], name)
             ELSE t,
             parents, name, i + 1)

\* Tree.removeNodeFromTree(n): n is the record handed in (for Sync: the record
\* of the stream, with the parents and the name the stream gives).
removeNodeFromTree(t, n) ==
    LET t1 == removeFromParents(t, n.Parents, n.Name, 1)
    IN  [t1 EXCEPT !.nodeIdMap = Del(@, n.Id)]

RECURSIVE addToParents(_, _, _, _)
addToParents(t, parents, c, i) ==
    IF i > Len(parents)
    THEN t
    ELSE LET pid == parents[i]
             t1 == IF pid \in DOMAIN t.nodeIdMap
                   THEN t
                   ELSE [t EXCEPT !.heap = Append(@, Placeholder(pid)),
                                  !.nodeIdMap = Put(@, pid, Len(t.heap) + 1)]
         IN  addToParents(addChild(t1, t1.nodeIdMap[pid], c), parents, c, i + 1)

\* updateNode without crNode.Nodes = node.Nodes: the record of a known id
\* starts with no children.
updateNodeWithoutChildren(t, crNode) ==
    IF crNode.IsRoot
    THEN [t EXCEPT !.heap = Append(@, Obj(crNode, 0)),
                   !.Node = Len(t.heap) + 1,
                   !.nodeIdMap = Put(@, crNode.Id, Len(t.heap) + 1)]
    ELSE IF ~IsAvailable(crNode)
    THEN removeNodeFromTree(t, crNode)
    ELSE LET found == crNode.Id \in DOMAIN t.nodeIdMap
             old == IF found THEN t.heap[t.nodeIdMap[crNode.Id]] ELSE Placeholder("")
             new == Len(t.heap) + 1
             t1 == [t EXCEPT !.heap = Append(@, Obj(crNode, 0)),
                             !.nodeIdMap = Put(@, crNode.Id, new)]
             t2 == IF found THEN removeFromParents(t1, old.Parents, old.Name, 1) ELSE t1
         IN  addToParents(t2, crNode.Parents, new, 1)

\* updateNode without parent.removeChild(node): the parents of the old
\* record keep it.
updateNodeKeepingOldLinks(t, crNode) ==
    IF crNode.IsRoot
    THEN [t EXCEPT !.heap = Append(@, Obj(crNode, 0)),
                   !.Node = Len(t.heap) + 1,
                   !.nodeIdMap = Put(@, crNode.Id, Len(t.heap) + 1)]
    ELSE IF ~IsAvailable(crNode)
    THEN removeNodeFromTree(t, crNode)
    ELSE LET found == crNode.Id \in DOMAIN t.nodeIdMap
             old == IF found THEN t.heap[t.nodeIdMap[crNode.Id]] ELSE Placeholder("")
             new == Len(t.heap) + 1
             t1 == [t EXCEPT !.heap = Append(@, Obj(crNode, IF found THEN old.Nodes ELSE 0)),
                             !.nodeIdMap = Put(@, crNode.Id, new)]
         IN  addToParents(t1, crNode.Parents, new, 1)

\* One iteration of the loop of Tree.updateNodes, for the record crNode.
updateNode(t, crNode) ==
    IF crNode.IsRoot
    THEN [t EXCEPT !.heap = Append(@, Obj(crNode, 0)),
                   !.Node = Len(t.heap) + 1,
                   !.nodeIdMap = Put(@, crNode.Id, Len(t.heap) + 1)]
    ELSE IF ~IsAvailable(crNode)
    THEN removeNodeFromTree(t, crNode)
    ELSE LET found == crNode.Id \in DOMAIN t.nodeIdMap
             old == IF found THEN t.heap[t.nodeIdMap[crNode.Id]] ELSE Placeholder("")
             new == Len(t.heap) + 1
             t1 == [t EXCEPT !.heap = Append(@, Obj(crNode, IF found THEN old.Nodes ELSE 0)),
                             !.nodeIdMap = Put(@, crNode.Id, new)]
             t2 == IF found THEN removeFromParents(t1, old.Parents, old.Name, 1) ELSE t1
         IN  addToParents(t2, crNode.Parents, new, 1)

\* Tree.buildNodeTree, ranging over the index in the order given (Go ranges
\* over a map in an unspecified order).
RECURSIVE linkToParents(_, _, _, _)
linkToParents(t, parents, c, i) ==
    IF i > Len(parents)
    THEN t
    ELSE linkToParents(
             IF parents[i] \in DOMAIN t.nodeIdMap
             THEN addChild(t, t.nodeIdMap[parents[i]], c)
             ELSE t,
             parents, c, i + 1)

\* buildNodeTree that sets the root and links no node to its parents.
RECURSIVE buildNodeTreeRootOnly(_, _, _)
buildNodeTreeRootOnly(t, order, i) ==
    IF i > Len(order)
    THEN t
    ELSE buildNodeTreeRootOnly(
             IF t.heap[t.nodeIdMap[order[i]]].IsRoot
             THEN [t EXCEPT !.Node = t.nodeIdMap[order[i]]]
             ELSE t,
             order, i + 1)

RECURSIVE buildNodeTree(_, _, _)
buildNodeTree(t, order, i) ==
    IF i > Len(order)
    THEN t
    ELSE LET a == t.nodeIdMap[order[i]]
             t1 == IF t.heap[a].IsRoot THEN [t EXCEPT !.Node = a] ELSE t
         IN  buildNodeTree(linkToParents(t1, t.heap[a].Parents, a, 1), order, i + 1)

\* the orders in which a set can be ranged over
RECURSIVE Orders(_)
Orders(S) ==
    IF S = {}
    THEN {<<>>}
    ELSE UNION {{<<x>> \o s : s \in Orders(S \ {x})} : x \in S}

(***************************************************************************)
(* Memory is garbage collected: Canon(t) is t without the objects and maps *)
(* that nothing refers to any more, the others renumbered in the order in  *)
(* which they are met from the index (ids in IdOrder), the root pointer    *)
(* and then the Nodes maps (keys in KeyOrder).  Two trees that differ in   *)
(* addresses only have the same Canon.                                     *)
(***************************************************************************)
IdOrder == <<"r", "a", "b">>

KeyOrder == <<"", "doc", "pic">>

Position(seq, x) == CHOOSE i \in 1..Len(seq) : seq[i] = x

AppendNew(seq, x) ==
    IF x = 0 \/ \E i \in 1..Len(seq) : seq[i] = x THEN seq ELSE Append(seq, x)

RECURSIVE AppendValues(_, _, _, _)
AppendValues(seq, f, order, i) ==
    IF i > Len(order)
    THEN seq
    ELSE AppendValues(IF order[i] \in DOMAIN f THEN AppendNew(seq, f[order[i]]) ELSE seq,
                      f, order, i + 1)

RECURSIVE Closure(_, _, _)
Closure(t, seq, i) ==
    IF i > Len(seq)
    THEN seq
    ELSE Closure(t, AppendValues(seq, Kids(t, seq[i]), KeyOrder, 1), i + 1)

RECURSIVE MapsOf(_, _, _, _)
MapsOf(t, objs, seq, i) ==
    IF i > Len(objs)
    THEN seq
    ELSE MapsOf(t, objs, AppendNew(seq, t.heap[objs[i]].Nodes), i + 1)

Canon(t) ==
    LET objs == Closure(t, AppendNew(AppendValues(<<>>, t.nodeIdMap, IdOrder, 1), t.Node), 1)
        ms == MapsOf(t, objs, <<>>, 1)
        newAddr(a) == IF a = 0 THEN 0 ELSE Position(objs, a)
        newMap(m) == IF m = 0 THEN 0 ELSE Position(ms, m)
    IN  [heap |-> [i \in 1..Len(objs) |->
                      [t.heap[objs[i]] EXCEPT !.Nodes = newMap(@)]],
         maps |-> [j \in 1..Len(ms) |->
                      [k \in DOMAIN t.maps[ms[j]] |-> newAddr(t.maps[ms[j]][k])]],
         Node |-> newAddr(t.Node),
         nodeIdMap |-> [id \in DOMAIN t.nodeIdMap |-> newAddr(t.nodeIdMap[id])],
         Checkpoint |-> t.Checkpoint]

(***************************************************************************)
(* Lookups.                                                                *)
(***************************************************************************)
\* The loop of Tree.FindNode over the lowercased parts of a path: the address
\* reached from the object a, or 0 when a part is no key of a Nodes map.
RECURSIVE descend(_, _, _, _)
descend(t, a, parts, i) ==
    IF i > Len(parts)
    THEN a
    ELSE IF parts[i] \in DOMAIN Kids(t, a)
    THEN descend(t, Kids(t, a)[parts[i]], parts, i + 1)
    ELSE 0

\* A path is the sequence of the segments between its slashes; an empty
\* segment stands for a slash that follows a slash, or that begins or ends
\* the path.  The string of a path is the sequence of its names and slashes.
RECURSIVE Join(_)
Join(path) ==
    IF path = <<>>
    THEN <<>>
    ELSE (IF Head(path) = "" THEN <<>> ELSE <<Head(path)>>)
             \o (IF Len(path) > 1 THEN <<"/">> \o Join(Tail(path)) ELSE <<>>)

\* re.ReplaceAll that leaves the string as it is.
ReplaceNothing(str) == str

\* re.ReplaceAll(path, "/") with the expression "/[/]*": one slash takes the
\* place of every run of slashes.
ReplaceAll(str) ==
    LET kept(i) == str[i] # "/" \/ i = 1 \/ str[i - 1] # "/"
        F[i \in 0..Len(str)] ==
            IF i = 0 THEN <<>> ELSE IF kept(i) THEN Append(F[i - 1], str[i]) ELSE F[i - 1]
    IN  F[Len(str)]

\* strings.Trim(path, "/"): the slashes the string begins and ends with are cut.
RECURSIVE TrimSlashes(_)
TrimSlashes(str) ==
    IF str = <<>>
    THEN <<>>
    ELSE IF Head(str) = "/"
    THEN TrimSlashes(Tail(str))
    ELSE IF str[Len(str)] = "/"
    THEN TrimSlashes(SubSeq(str, 1, Len(str) - 1))
    ELSE str

\* strings.Split(path, "/"): the parts between the slashes, the empty ones
\* included; the empty string gives one empty part.
RECURSIVE Split(_)
Split(str) ==
    IF \A i \in 1..Len(str) : str[i] # "/"
    THEN <<IF str = <<>> THEN "" ELSE str[1]>>
    ELSE LET at == CHOOSE i \in 1..Len(str) : str[i] = "/" /\ \A k \in 1..(i - 1) : str[k] # "/"
         IN  <<IF at = 1 THEN "" ELSE str[1]>> \o Split(SubSeq(str, at + 1, Len(str)))

\* The string FindNode is left with before it lowercases it.
Cleaned(path) == TrimSlashes(ReplaceAll(Join(path)))

\* The parts FindNode looks up: none when the cleaned string is empty,
\* otherwise the parts of the lowercased string.
LowerParts(path) ==
    IF Cleaned(path) = <<>>
    THEN <<>>
    ELSE Split([i \in 1..Len(Cleaned(path)) |-> ToLower(Cleaned(path)[i])])

\* FindNode that does not lowercase the path.
FindNodeCaseSensitive(t, path) ==
    LET parts == IF Cleaned(path) = <<>> THEN <<>> ELSE Split(Cleaned(path))
    IN  IF parts = <<>>
        THEN [err |-> "nil", node |-> t.Node]
        ELSE IF t.Node = 0
        THEN [err |-> "panic", node |-> 0]
        ELSE IF descend(t, t.Node, parts, 1) = 0
        THEN [err |-> "ErrNodeNotFound", node |-> 0]
        ELSE [err |-> "nil", node |-> descend(t, t.Node, parts, 1)]

\* Tree.FindNode: the root for the empty path (nil when the tree has no
\* root); otherwise the search starts from the root, which panics when there
\* is none, and fails with ErrNodeNotFound at the first part that is no key.
FindNode(t, path) ==
    LET parts == LowerParts(path)
    IN  IF parts = <<>>
        THEN [err |-> "nil", node |-> t.Node]
        ELSE IF t.Node = 0
        THEN [err |-> "panic", node |-> 0]
        ELSE IF descend(t, t.Node, parts, 1) = 0
        THEN [err |-> "ErrNodeNotFound", node |-> 0]
        ELSE [err |-> "nil", node |-> descend(t, t.Node, parts, 1)]

\* Tree.FindById: the address stored for the id, 0 for ErrNodeNotFound.
FindById(t, id) == IF id \in DOMAIN t.nodeIdMap THEN t.nodeIdMap[id] ELSE 0

\* The key paths that lead from the object a to an object, a itself included.
RECURSIVE PathsFrom(_, _, _)
PathsFrom(t, a, prefix) ==
    {prefix} \cup
    UNION {PathsFrom(t, Kids(t, a)[k], Append(prefix, k)) : k \in DOMAIN Kids(t, a)}

\* the addresses reachable from the object a through Nodes maps
Reach(t, a) == {descend(t, a, p, 1) : p \in PathsFrom(t, a, <<>>)}

(***************************************************************************)
(* The cache file.  gob writes the exported fields of Tree: the embedded   *)
(* root Node with, recursively, the Nodes maps, and the checkpoint.  The   *)
(* index is not exported and is not written.  A pointer is written as the  *)
(* value it points to, so the file holds one record per path from the root *)
(* and an object reachable by two paths is written twice.                  *)
(***************************************************************************)
NoFile == [kind |-> "absent"]

BadFile == [kind |-> "undecodable"]

gobEncode(t) ==
    [kind |-> "tree",
     Checkpoint |-> t.Checkpoint,
     nodes |-> IF t.Node = 0
               THEN EmptyMap
               ELSE [p \in PathsFrom(t, t.Node, <<>>) |->
                        LET o == t.heap[descend(t, t.Node, p, 1)]
                        IN  [fields |-> Fields(o), hasNodes |-> o.Nodes # 0]]]

RECURSIVE SetToSeq(_)
SetToSeq(S) ==
    IF S = {}
    THEN <<>>
    ELSE LET x == CHOOSE y \in S : TRUE IN <<x>> \o SetToSeq(S \ {x})

\* gob decoding into a fresh Tree: one new object per record of the file, one
\* new map per object that was written with a map.  The object of the path
\* ps[i] gets the address i and, when it has a map, the map address i.
gobDecode(file) ==
    LET ps == SetToSeq(DOMAIN file.nodes)
        addr(p) == CHOOSE i \in 1..Len(ps) : ps[i] = p
        keys(p) == {k \in LowerNames : Append(p, k) \in DOMAIN file.nodes}
    IN  [heap |-> [i \in 1..Len(ps) |->
                      Obj(file.nodes[ps[i]].fields,
                          IF file.nodes[ps[i]].hasNodes THEN i ELSE 0)],
         maps |-> [i \in 1..Len(ps) |->
                      [k \in keys(ps[i]) |-> addr(Append(ps[i], k))]],
         Node |-> IF <<>> \in DOMAIN file.nodes THEN addr(<<>>) ELSE 0,
         nodeIdMap |-> EmptyMap,
         Checkpoint |-> file.Checkpoint]

\* Tree.buildNodeIdMap visits the root, then recursively the values of each
\* Nodes map in the order Go ranges over it, and stores every object it
\* visits under its id: the object visited last stays.  VisitOrders is the
\* set of the sequences of addresses such a walk can visit.
RECURSIVE VisitOrders(_, _)
RECURSIVE VisitAll(_, _, _)
VisitAll(t, kids, i) ==
    IF i > Len(kids)
    THEN {<<>>}
    ELSE {s1 \o s2 : s1 \in VisitOrders(t, kids[i]), s2 \in VisitAll(t, kids, i + 1)}

VisitOrders(t, a) ==
    LET byKey == UNION {VisitAll(t, [i \in 1..Len(o) |-> Kids(t, a)[o[i]]], 1)
                          : o \in Orders(DOMAIN Kids(t, a))}
    IN  {<<a>> \o s : s \in byKey}

RECURSIVE storeVisited(_, _, _)
storeVisited(t, visit, i) ==
    IF i > Len(visit)
    THEN t
    ELSE storeVisited([t EXCEPT !.nodeIdMap = Put(@, t.heap[visit[i]].Id, visit[i])],
                      visit, i + 1)

\* buildNodeIdMap that stores the root only.
buildNodeIdMapOfRoot(t, visit) ==
    storeVisited([t EXCEPT !.nodeIdMap = EmptyMap], <<visit[1]>>, 1)

buildNodeIdMap(t, visit) == storeVisited([t EXCEPT !.nodeIdMap = EmptyMap], visit, 1)

(***************************************************************************)
(* The process: NewTree, the background sync loop it starts, Close, and    *)
(* the server and the file system around them.                             *)
(***************************************************************************)
VARIABLES
    nt,         \* the Tree of the process and the objects it refers to
    cacheFile,  \* the contents of the cache file
    pc,         \* where the thread that runs NewTree and then the loop is
    caller,     \* who called the Sync in progress: "NewTree" or "loop"
    line,       \* the line of the change stream being folded
    result,     \* what the last Sync returned
    nlines,     \* lines of the current stream read so far
    folded,     \* node records folded so far
    ticks,      \* ticks of the sync ticker so far
    restarts,   \* restarts of the process so far
    cps,        \* the checkpoints of the lines folded by the Sync in progress
    pre,        \* the checkpoint when the Sync in progress was entered
    failedAt,   \* the line at which the last Sync failed, 0 if none
    atReset,    \* the tree when the Sync in progress read a reset line
    saved,      \* the tree that was last written to the cache file
    loaded,     \* whether NewTree of this process loaded the cache
    reqCp,      \* the checkpoint sent with the last changes request
    iter,       \* what the current loop iteration has done
    up,         \* the upload in progress: the caller, the producer, the consumer
    cl,         \* Client.Close and the loops of the client: where they are
    mk,         \* the calls of MkDirAll: the path, the loop, the requests
    pg,         \* the call of PurgeNodes: the ids, the requests, the error maps
    pr,         \* a Property: its mapping and the last operation on it
    fd          \* the last two calls of FindNode: the paths and what they returned

vars ==
    <<nt, cacheFile, pc, caller, line, result, nlines, folded, ticks,
      restarts, cps, pre, failedAt, atReset, saved, loaded, reqCp, iter, up, cl,
      mk, pg, pr, fd>>

\* The checkpoint the server sends with a line: a token that differs from the
\* one the tree holds (1 and 2 stand for two tokens, 0 for the empty string).
NextCheckpoint(cp) == IF cp = 1 THEN 2 ELSE 1

NoLine == [cp |-> 0, reset |-> FALSE, n |-> 0, end |-> FALSE]

None == [seen |-> FALSE, tree |-> EmptyTree]

NoIter == [syncs |-> 0, mustFetch |-> FALSE, fetched |-> FALSE]

\* No upload has been started.
NoUpload ==
    [main |-> "idle", producer |-> "none", consumer |-> "none",
     parent |-> "", name |-> "", size |-> 0, left |-> 0, count |-> 0,
     written |-> 0, wclosed |-> FALSE, rclosed |-> FALSE,
     header |-> "", dispatched |-> FALSE, response |-> "none",
     result |-> "none", offered |-> {}, dropped |-> {},
     client |-> "none", before |-> EmptyTree]

\* Close has not been called: the channels syncDone, purgeTrashDone and
\* refreshTokenDone are empty (0; each has room for one value), the loops
\* that purge the trash and refresh the token are in their select.
NoClose ==
    [main |-> "open", syncDone |-> 0, purgeTrashDone |-> 0, refreshTokenDone |-> 0,
     purgeTrash |-> "select", refreshToken |-> "select",
     purgeTicks |-> 0, refreshTicks |-> 0]

\* MkDirAll has not been called.
NoMkDirAll ==
    [call |-> 0, state |-> "idle", path |-> <<>>, parts |-> <<>>, i |-> 0, folderNode |-> 0,
     requests |-> <<>>, result |-> "none", node |-> "", missing |-> <<>>, found |-> 0,
     before |-> EmptyTree, first |-> ""]

\* PurgeNodes has not been called.
NoPurge ==
    [state |-> "idle", nodeIds |-> <<>>, i |-> 0, requests |-> <<>>,
     errorMaps |-> <<>>, answered |-> <<>>, result |-> [err |-> "none", maps |-> <<>>]]

\* FindNode has not been called.
NoFind ==
    [calls |-> 0, root |-> 0, path |-> <<>>, other |-> <<>>,
     first |-> [err |-> "none", node |-> 0], second |-> [err |-> "none", node |-> 0]]

\* NewProperty(): no mapping, no operation yet.
NoProperty ==
    [props |-> EmptyMap, before |-> EmptyMap,
     op |-> [name |-> "NewProperty", args |-> <<>>, errs |-> <<>>]]

\* A cache file that an earlier process left behind: the root, the folder
\* "a" under it and the file "b" in "a", folded by Sync and saved with the
\* checkpoint 1.
RECURSIVE updateNodes(_, _, _)
updateNodes(t, nodes, i) ==
    IF i > Len(nodes) THEN t ELSE updateNodes(updateNode(t, nodes[i]), nodes, i + 1)

SeedNodes ==
    <<RootNode,
      [Id |-> "a", Name |-> "Doc", Kind |-> KindFolder, Status |-> StatusAvailable,
       Parents |-> <<"r">>, IsRoot |-> FALSE],
      [Id |-> "b", Name |-> "Doc", Kind |-> KindFile, Status |-> StatusAvailable,
       Parents |-> <<"a">>, IsRoot |-> FALSE]>>

SeedFile ==
    gobEncode(buildNodeTree([updateNodes(EmptyTree, SeedNodes, 1) EXCEPT !.Checkpoint = 1],
                            IdOrder, 1))

\* The state when the process starts and calls NewTree: an empty Tree, and
\* no cache file, one that gob cannot decode, or one of an earlier process.
Init ==
    /\ nt = EmptyTree
    /\ cacheFile \in {NoFile, BadFile, SeedFile}
    /\ pc = "start"
    /\ caller = "none"
    /\ line = NoLine
    /\ result = "none"
    /\ nlines = 0
    /\ folded = 0
    /\ ticks = 0
    /\ restarts = 0
    /\ cps = <<>>
    /\ pre = 0
    /\ failedAt = 0
    /\ atReset = None
    /\ saved = None
    /\ loaded = FALSE
    /\ reqCp = 0
    /\ iter = NoIter
    /\ up = NoUpload
    /\ cl = NoClose
    /\ mk = NoMkDirAll
    /\ pg = NoPurge
    /\ pr = NoProperty
    /\ fd = NoFind

\* Tree.loadCache: the trees it can leave behind.  "err" is ErrLoadingCache
\* (no file, or gob cannot decode it); "panic" is the nil dereference of
\* buildNodeIdMap(nt.Node) when the file was written by a Tree without root.
loadCache(t, file) ==
    IF file.kind # "tree"
    THEN {[out |-> "err", tree |-> t]}
    ELSE LET d == gobDecode(file)
         IN  IF d.Node = 0
             THEN {[out |-> "panic", tree |-> d]}
             ELSE {[out |-> "nil", tree |-> Canon(buildNodeIdMap(d, v))] : v \in VisitOrders(d, d.Node)}

\* Tree.saveCache: os.Create can fail (the file is left as it was); otherwise
\* the file holds the encoding of the tree.
saveCache(t, file) ==
    {[out |-> "nil", file |-> gobEncode(t)], [out |-> "ErrCreateFile", file |-> file]}

\* Entering Tree.Sync.
EnterSync(who) ==
    /\ pc' = "request"
    /\ caller' = who

\* The caller of Sync goes on: what the model has noted about the Sync is
\* forgotten.
LeaveSync ==
    /\ caller' = "none"
    /\ line' = NoLine
    /\ result' = "none"
    /\ nlines' = 0
    /\ cps' = <<>>
    /\ pre' = 0
    /\ failedAt' = 0
    /\ atReset' = None
    /\ reqCp' = 0

\* The lists of nodes the server can answer a fresh fetch with: the root,
\* the root with the folder "a", the root with "a" in the trash.
FreshLists ==
    {<<RootNode>>,
     <<RootNode, SeedNodes[2]>>,
     <<RootNode, [SeedNodes[2] EXCEPT !.Status = StatusTrash]>>}

\* Tree.fetchFresh once the list is there: the available nodes are indexed
\* by id, a folder without name and parents becomes the root, and every node
\* is stored in the Nodes map of each parent the index holds.  The nodes come
\* from the JSON decoder with a nil Nodes map, and storing into a nil map
\* panics.  Otherwise the checkpoint is emptied and the index replaced.
fetchFresh(t, nodes) ==
    LET avail == SelectSeq(nodes, IsAvailable)
        base == Len(t.heap)
        heap1 == t.heap \o [i \in 1..Len(avail) |-> Obj(avail[i], 0)]
        last(id) == CHOOSE i \in 1..Len(avail) :
                       /\ avail[i].Id = id
                       /\ \A j \in (i + 1)..Len(avail) : avail[j].Id # id
        idx == [id \in {avail[i].Id : i \in 1..Len(avail)} |-> base + last(id)]
        linked == \E id \in DOMAIN idx :
                     \E k \in 1..Len(heap1[idx[id]].Parents) :
                        heap1[idx[id]].Parents[k] \in DOMAIN idx
        roots == {id \in DOMAIN idx :
                     /\ heap1[idx[id]].Name = ""
                     /\ IsDir(heap1[idx[id]])
                     /\ Len(heap1[idx[id]].Parents) = 0}
    IN  IF linked
        THEN [out |-> "panic", tree |-> t]
        ELSE [out |-> "nil",
              tree |-> [t EXCEPT !.heap = heap1,
                                 !.Node = IF roots = {} THEN @ ELSE idx[CHOOSE id \in roots : TRUE],
                                 !.nodeIdMap = idx,
                                 !.Checkpoint = 0]]

\* what a call of fetchFresh can do: fail on the request, panic, or replace
\* the tree
fetchFreshOutcomes(t) ==
    {[out |-> "ErrDoingHTTPRequest", tree |-> t]} \cup {fetchFresh(t, l) : l \in FreshLists}

\* NewTree falling back to a fresh fetch when loadCache fails, as
\* Tree.loadOrFetch does.
NewTreeFetchingOnMiss ==
    /\ pc = "start"
    /\ \E r \in loadCache(nt, cacheFile) :
          /\ loaded' = (r.out = "nil")
          /\ IF r.out = "panic"
             THEN nt' = r.tree /\ pc' = "panicked" /\ UNCHANGED <<caller, iter>>
             ELSE IF r.out = "nil"
             THEN nt' = r.tree /\ EnterSync("NewTree") /\ UNCHANGED iter
             ELSE \E f \in fetchFreshOutcomes(r.tree) :
                     /\ nt' = Canon(f.tree)
                     /\ iter' = [iter EXCEPT !.fetched = TRUE]
                     /\ IF f.out = "panic"
                        THEN pc' = "panicked" /\ UNCHANGED caller
                        ELSE EnterSync("NewTree")
    /\ UNCHANGED <<up, cl, mk, pg, pr, fd, cacheFile, line, result, nlines, folded, ticks, restarts, cps, pre,
                   failedAt, atReset, saved, reqCp>>

\* NewTree up to its call of Sync: the error of loadCache is logged only.
NewTree ==
    /\ pc = "start"
    /\ \E r \in loadCache(nt, cacheFile) :
          /\ nt' = r.tree
          /\ loaded' = (r.out = "nil")
          /\ IF r.out = "panic"
             THEN pc' = "panicked" /\ UNCHANGED caller
             ELSE EnterSync("NewTree")
    /\ UNCHANGED <<up, cl, mk, pg, pr, fd, cacheFile, line, result, nlines, folded, ticks, restarts, cps, pre,
                   failedAt, atReset, saved, reqCp, iter>>

\* Tree.Sync from its entry to the first Scan: the request carries the
\* checkpoint of the tree; Do or CheckResponse can fail.
SyncRequest ==
    /\ pc = "request"
    /\ reqCp' = nt.Checkpoint
    /\ pre' = nt.Checkpoint
    /\ iter' = [iter EXCEPT !.syncs = @ + 1]
    /\ \E out \in {"ok", "ErrDoingHTTPRequest", "ErrUnavailable"} :
          IF out = "ok"
          THEN pc' = "scan" /\ UNCHANGED result
          ELSE pc' = "returned" /\ result' = out
    /\ UNCHANGED <<up, cl, mk, pg, pr, fd, nt, cacheFile, caller, line, nlines, folded, ticks,
                   restarts, cps, failedAt, atReset, saved, loaded>>

\* SyncLine with the assignment of the checkpoint moved before updateNodes.
SyncLineStoringCheckpoint ==
    /\ pc = "scan"
    /\ nlines < MaxLines
    /\ \E reset \in BOOLEAN :
          /\ line' = [cp |-> NextCheckpoint(nt.Checkpoint), reset |-> reset, n |-> 0,
                      end |-> FALSE]
          /\ atReset' = IF reset /\ ~atReset.seen
                        THEN [seen |-> TRUE, tree |-> nt]
                        ELSE atReset
    /\ nt' = [nt EXCEPT !.Checkpoint = NextCheckpoint(nt.Checkpoint)]
    /\ nlines' = nlines + 1
    /\ pc' = "fold"
    /\ UNCHANGED <<up, cl, mk, pg, pr, fd, cacheFile, caller, result, folded, ticks, restarts, cps, pre,
                   failedAt, saved, loaded, reqCp, iter>>

\* scanner.Scan returned a line that decodes and has no end flag: the loop
\* goes on to updateNodes.  resets are the values the reset flag can have.
SyncLineWith(resets) ==
    /\ pc = "scan"
    /\ nlines < MaxLines
    /\ \E reset \in resets :
          /\ line' = [cp |-> NextCheckpoint(nt.Checkpoint), reset |-> reset, n |-> 0,
                      end |-> FALSE]
          /\ atReset' = IF reset /\ ~atReset.seen
                        THEN [seen |-> TRUE, tree |-> nt]
                        ELSE atReset
    /\ nlines' = nlines + 1
    /\ pc' = "fold"
    /\ UNCHANGED <<up, cl, mk, pg, pr, fd, nt, cacheFile, caller, result, folded, ticks, restarts, cps, pre,
                   failedAt, saved, loaded, reqCp, iter>>

\* The reset flag of the line is decoded and not read.
SyncLine == SyncLineWith(BOOLEAN)

\* One iteration of the loop of updateNodes.
SyncFold ==
    /\ pc = "fold"
    /\ line.n < MaxNodes
    /\ folded < MaxDeltas
    /\ \E crNode \in Deltas : nt' = Canon(updateNode(nt, crNode))
    /\ line' = [line EXCEPT !.n = @ + 1]
    /\ folded' = folded + 1
    /\ UNCHANGED <<up, cl, mk, pg, pr, fd, cacheFile, pc, caller, result, nlines, ticks, restarts,
                   cps, pre, failedAt, atReset, saved, loaded, reqCp, iter>>

\* updateNodes returned: the checkpoint of the line is stored.
SyncLineDone ==
    /\ pc = "fold"
    /\ nt' = [nt EXCEPT !.Checkpoint = line.cp]
    /\ cps' = Append(cps, line.cp)
    /\ pc' = "scan"
    /\ UNCHANGED <<up, cl, mk, pg, pr, fd, cacheFile, caller, line, result, nlines, folded, ticks,
                   restarts, pre, failedAt, atReset, saved, loaded, reqCp, iter>>

\* The line does not decode (ErrJSONDecodingResponseBody), or the scanner
\* failed reading it (ErrReadingResponseBody): Sync returns at once.
SyncLineFails ==
    /\ pc = "scan"
    /\ \E err \in {"ErrJSONDecodingResponseBody", "ErrReadingResponseBody"} : result' = err
    /\ failedAt' = nlines + 1
    /\ pc' = "returned"
    /\ UNCHANGED <<up, cl, mk, pg, pr, fd, nt, cacheFile, caller, line, nlines, folded, ticks, restarts,
                   cps, pre, atReset, saved, loaded, reqCp, iter>>

\* The end of the loop of Sync: buildNodeTree, then saveCache, whose error is
\* the result of Sync.
SyncRebuildAndSave ==
    /\ \E order \in Orders(DOMAIN nt.nodeIdMap) :
          LET t == Canon(buildNodeTree(nt, order, 1))
          IN  /\ nt' = t
              /\ \E s \in saveCache(t, cacheFile) :
                    /\ cacheFile' = s.file
                    /\ result' = s.out
                    /\ saved' = IF s.out = "nil" THEN [seen |-> TRUE, tree |-> t] ELSE saved
    /\ pc' = "returned"

\* The stream ended: scanner.Scan returned false without an error.
SyncFinish ==
    /\ pc = "scan"
    /\ SyncRebuildAndSave
    /\ UNCHANGED <<up, cl, mk, pg, pr, fd, caller, line, nlines, folded, ticks, restarts, cps, pre,
                   failedAt, atReset, loaded, reqCp, iter>>

\* The checkpoints a line with the end flag can carry: none, or a new token.
EndCheckpoints(cp) == {0, NextCheckpoint(cp)}

\* SyncEndLine with the test of the end flag after updateNodes and the
\* assignment of the checkpoint: a node of the line is folded and the
\* checkpoint of the line stored before the loop is left.
SyncEndLineFolded ==
    /\ pc = "scan"
    /\ \E cp \in EndCheckpoints(nt.Checkpoint), crNode \in Deltas :
       \E order \in Orders(DOMAIN updateNode(nt, crNode).nodeIdMap) :
          LET t == Canon(buildNodeTree([updateNode(nt, crNode) EXCEPT !.Checkpoint = cp],
                                       order, 1))
          IN  /\ line' = [cp |-> cp, reset |-> FALSE, n |-> 1, end |-> TRUE]
              /\ nt' = t
              /\ \E s \in saveCache(t, cacheFile) :
                    /\ cacheFile' = s.file
                    /\ result' = s.out
                    /\ saved' = IF s.out = "nil" THEN [seen |-> TRUE, tree |-> t] ELSE saved
    /\ pc' = "returned"
    /\ UNCHANGED <<up, cl, mk, pg, pr, fd, caller, nlines, folded, ticks, restarts, cps, pre,
                   failedAt, atReset, loaded, reqCp, iter>>

\* scanner.Scan returned a line that decodes and has the end flag: the loop
\* is left before updateNodes and before the checkpoint is assigned, whatever
\* nodes and checkpoint the line carries.
SyncEndLine ==
    /\ pc = "scan"
    /\ \E cp \in EndCheckpoints(nt.Checkpoint) :
          line' = [cp |-> cp, reset |-> FALSE, n |-> 0, end |-> TRUE]
    /\ SyncRebuildAndSave
    /\ UNCHANGED <<up, cl, mk, pg, pr, fd, caller, nlines, folded, ticks, restarts, cps, pre,
                   failedAt, atReset, loaded, reqCp, iter>>

\* NewTree after its Sync: an error is returned to the caller, otherwise the
\* ticker and the loop are started.
NewTreeSyncDone ==
    /\ pc = "returned"
    /\ caller = "NewTree"
    /\ pc' = IF result = "nil" THEN "ready" ELSE "failed"
    /\ iter' = NoIter
    /\ LeaveSync
    /\ UNCHANGED <<up, cl, mk, pg, pr, fd, nt, cacheFile, folded, ticks, restarts, saved, loaded>>

\* The loop: the ticker fires and Sync is called.
Tick ==
    /\ pc = "ready"
    /\ ticks < MaxTicks
    /\ ticks' = ticks + 1
    /\ iter' = NoIter
    /\ EnterSync("loop")
    /\ UNCHANGED <<up, cl, mk, pg, pr, fd, nt, cacheFile, line, result, nlines, folded, restarts, cps, pre,
                   failedAt, atReset, saved, loaded, reqCp>>

\* The loop after Sync: an error is logged, and the loop selects again.
LoopSyncDone ==
    /\ pc = "returned"
    /\ caller = "loop"
    /\ pc' = "ready"
    /\ iter' = NoIter
    /\ LeaveSync
    /\ UNCHANGED <<up, cl, mk, pg, pr, fd, nt, cacheFile, folded, ticks, restarts, saved, loaded>>

\* Close without its call of saveCache: the loop is told to stop and nil is
\* returned.
CloseWithoutSave ==
    /\ pc = "ready"
    /\ result' = "nil"
    /\ pc' = "closed"
    /\ UNCHANGED <<up, cl, mk, pg, pr, fd, nt, cacheFile, caller, line, nlines, folded, ticks, restarts,
                   cps, pre, failedAt, atReset, saved, loaded, reqCp, iter>>

\* Tree.Close between two ticks: the loop is told to stop and the cache is
\* saved; Close returns what saveCache returns.
Close ==
    /\ pc = "ready"
    /\ \E s \in saveCache(nt, cacheFile) :
          /\ cacheFile' = s.file
          /\ result' = s.out
          /\ saved' = IF s.out = "nil" THEN [seen |-> TRUE, tree |-> nt] ELSE saved
    /\ pc' = "closed"
    /\ UNCHANGED <<up, cl, mk, pg, pr, fd, nt, caller, line, nlines, folded, ticks, restarts,
                   cps, pre, failedAt, atReset, loaded, reqCp, iter>>

\* The process ends and is started again: its memory is gone, the cache
\* file and the server are as they were.
Restart ==
    /\ pc \in {"closed", "failed", "panicked"}
    /\ restarts < MaxRestarts
    /\ restarts' = restarts + 1
    /\ nt' = EmptyTree
    /\ pc' = "start"
    /\ ticks' = 0
    /\ loaded' = FALSE
    /\ UNCHANGED <<up, cl, mk, pg, pr, fd, cacheFile, caller, line, result, nlines, folded, cps, pre, failedAt,
                   atReset, saved, reqCp, iter>>

Next ==
    \/ NewTree
    \/ SyncRequest
    \/ SyncLine
    \/ SyncFold
    \/ SyncLineDone
    \/ SyncLineFails
    \/ SyncFinish
    \/ NewTreeSyncDone
    \/ Tick
    \/ LoopSyncDone
    \/ Close

\* One process from NewTree to Close.  The streams of its Syncs end without
\* an end line.
Spec == Init /\ [][Next]_vars

\* The first tick of the ticker.
FirstTick == ticks = 0 /\ Tick

NextOneTick ==
    \/ NewTree
    \/ SyncRequest
    \/ SyncLine
    \/ SyncFold
    \/ SyncLineDone
    \/ SyncLineFails
    \/ SyncFinish
    \/ NewTreeSyncDone
    \/ FirstTick
    \/ LoopSyncDone
    \/ Close

\* One process from NewTree to Close whose loop runs Sync once: the Sync of
\* NewTree, the Sync of the first tick, and Close.
SpecOneTick == Init /\ [][NextOneTick]_vars

\* NewTree with its first Sync, whose stream can end or deliver a line with
\* the end flag.
NextFirstSync ==
    \/ NewTree
    \/ SyncRequest
    \/ SyncLine
    \/ SyncFold
    \/ SyncLineDone
    \/ SyncLineFails
    \/ SyncFinish
    \/ SyncEndLine
    \/ NewTreeSyncDone

SpecFirstSync == Init /\ [][NextFirstSync]_vars

NextCache == Next \/ Restart

\* Processes that follow one another on the same cache file.
SpecCache == Init /\ [][NextCache]_vars

(***************************************************************************)
(* The tree of src/node/tree.go, whose loop handles ErrMustFetchFresh.     *)
(* No Sync of the sources returns that error: here a line with the reset   *)
(* flag makes Sync return it, as the specification says, and lines without *)
(* the flag are folded as above.                                           *)
(***************************************************************************)
\* A line without the reset flag.
LegacySyncLine == SyncLineWith({FALSE})

\* A line with the reset flag: Sync returns ErrMustFetchFresh, the tree and
\* the checkpoint are left as they are.
SyncResetLine ==
    /\ pc = "scan"
    /\ nlines < MaxLines
    /\ result' = "ErrMustFetchFresh"
    /\ pc' = "returned"
    /\ UNCHANGED <<up, cl, mk, pg, pr, fd, nt, cacheFile, caller, line, nlines, folded, ticks, restarts,
                   cps, pre, failedAt, atReset, saved, loaded, reqCp, iter>>

\* The loop after Sync: on ErrMustFetchFresh fetchFresh is called and its
\* error logged; any other error is logged.  The loop then selects again.
LegacyLoopSyncDone ==
    /\ pc = "returned"
    /\ caller = "loop"
    /\ IF result = "ErrMustFetchFresh"
       THEN \E r \in fetchFreshOutcomes(nt) :
               /\ nt' = Canon(r.tree)
               /\ pc' = IF r.out = "panic" THEN "panicked" ELSE "ready"
               /\ iter' = [iter EXCEPT !.mustFetch = TRUE, !.fetched = TRUE]
       ELSE /\ nt' = nt
            /\ pc' = "ready"
            /\ iter' = NoIter
    /\ LeaveSync
    /\ UNCHANGED <<up, cl, mk, pg, pr, fd, cacheFile, folded, ticks, restarts, saved, loaded>>

NextLegacy ==
    \/ NewTree
    \/ SyncRequest
    \/ LegacySyncLine
    \/ SyncResetLine
    \/ SyncFold
    \/ SyncLineDone
    \/ SyncLineFails
    \/ SyncFinish
    \/ NewTreeSyncDone
    \/ Tick
    \/ LegacyLoopSyncDone
    \/ Close

SpecLegacy == Init /\ [][NextLegacy]_vars

(***************************************************************************)
(* Upload.  Tree.Upload calls Tree.upload, which makes the pipe and the    *)
(* three unbuffered channels, starts the producer (Node.bodyWriter) and    *)
(* the consumer (the goroutine that sends the request) and then loops on   *)
(* a select over errChan and bodyChan.  up.main, up.producer and           *)
(* up.consumer say where the three are.  A write to the pipe returns when  *)
(* the reader has taken the bytes or the read end is closed.               *)
(***************************************************************************)
\* what the process has beside the tree and the upload
syncVars ==
    <<cacheFile, pc, caller, line, result, nlines, folded, ticks, restarts,
      cps, pre, failedAt, atReset, saved, loaded, reqCp, iter, cl, mk, pg, pr, fd>>

\* writer.FormDataContentType()
FormDataContentType == "multipart/form-data; boundary=x"

\* The tree of the process that uploads: the root and the folder "a".
UploadTree ==
    Canon(buildNodeTree([updateNodes(EmptyTree, SubSeq(SeedNodes, 1, 2), 1)
                            EXCEPT !.Checkpoint = 1],
                        <<"r", "a">>, 1))

\* the node the server answers an upload with
UploadedNode(u) ==
    [Id |-> "b", Name |-> u.name, Kind |-> KindFile, Status |-> StatusAvailable,
     Parents |-> <<u.parent>>, IsRoot |-> FALSE]

\* select { case errChan <- e: default: }  The send happens when the caller
\* is waiting in its select; it then returns e, or selects again when e is
\* nil.  Otherwise the default case runs and e is lost.
SendErr(u, e) ==
    IF u.main = "waiting"
    THEN [u EXCEPT !.offered = @ \cup {e},
                   !.main = IF e = "nil" THEN "looping" ELSE "returned",
                   !.result = IF e = "nil" THEN @ ELSE e]
    ELSE [u EXCEPT !.offered = @ \cup {e}, !.dropped = @ \cup {e}]

\* select { case bodyChan <- res.Body: default: }  The caller decodes the
\* body into a Node, which can fail.
SendBody(u) ==
    IF u.main = "waiting"
    THEN {[u EXCEPT !.offered = @ \cup {"body"}, !.main = "returned", !.result = r]
            : r \in {"node", "ErrJSONDecodingResponseBody"}}
    ELSE {[u EXCEPT !.offered = @ \cup {"body"}, !.dropped = @ \cup {"body"}]}

\* the transport is reading the body of the request from the pipe
Reading(u) == u.consumer = "inDo" /\ ~u.rclosed /\ ~u.wclosed

\* Tree.Upload up to the select loop of Tree.upload: the metadata is encoded,
\* the pipe and the channels are made and the two goroutines are started.
UploadStart ==
    /\ pc = "ready"
    /\ up.main = "idle"
    /\ \E parent \in {"r", "a"}, name \in {"Doc", "Pic"}, size \in 0..MaxChunks :
          up' = [NoUpload EXCEPT !.main = "starting", !.producer = "sendCT",
                                 !.consumer = "newRequest", !.parent = parent,
                                 !.name = name, !.size = size, !.left = size]
    /\ UNCHANGED <<nt, syncVars>>

\* The caller reaches its select, for the first time or again.
MainSelect ==
    /\ up.main \in {"starting", "looping"}
    /\ up' = [up EXCEPT !.main = "waiting"]
    /\ UNCHANGED <<nt, syncVars>>

\* UploadReturn without parent.addChild(node): the node is stored in the
\* index only.
UploadReturnNotLinked ==
    /\ up.main = "returned"
    /\ up' = [up EXCEPT !.main = "done"]
    /\ nt' = IF up.result = "node"
             THEN Canon([nt EXCEPT !.heap = Append(@, Obj(UploadedNode(up), 0)),
                                   !.nodeIdMap = Put(@, "b", Len(nt.heap) + 1)])
             ELSE nt
    /\ UNCHANGED syncVars

\* Tree.Upload after Tree.upload returned: an error is returned, a node is
\* stored in the index and added to the children of the parent.
UploadReturn ==
    /\ up.main = "returned"
    /\ up' = [up EXCEPT !.main = "done"]
    /\ nt' = IF up.result = "node"
             THEN LET new == Len(nt.heap) + 1
                      t1 == [nt EXCEPT !.heap = Append(@, Obj(UploadedNode(up), 0)),
                                       !.nodeIdMap = Put(@, "b", new)]
                  IN  Canon(addChild(t1, nt.nodeIdMap[up.parent], new))
             ELSE nt
    /\ UNCHANGED syncVars

\* contentTypeChan <- writer.FormDataContentType() meets <-contentTypeChan of
\* the consumer, which adds the header to its request.
ProducerSendContentType ==
    /\ up.producer = "sendCT"
    /\ up.consumer = "recvCT"
    /\ up' = [up EXCEPT !.producer = "writeMeta", !.consumer = "dispatch",
                        !.header = FormDataContentType]
    /\ UNCHANGED <<nt, syncVars>>

\* writer.WriteField("metadata", metadataJSON)
ProducerWriteField ==
    /\ up.producer = "writeMeta"
    /\ \/ /\ Reading(up)
          /\ up' = [up EXCEPT !.producer = "createFormFile", !.written = @ + 1]
       \/ /\ up.rclosed
          /\ up' = SendErr([up EXCEPT !.producer = "exited"], "ErrWritingMetadata")
    /\ UNCHANGED <<nt, syncVars>>

\* writer.CreateFormFile("content", name): the header of the part is written.
ProducerCreateFormFile ==
    /\ up.producer = "createFormFile"
    /\ \/ /\ Reading(up)
          /\ up' = [up EXCEPT !.producer = "copy", !.written = @ + 1]
       \/ /\ up.rclosed
          /\ up' = SendErr([up EXCEPT !.producer = "exited"], "ErrClosedPipe")
    /\ UNCHANGED <<nt, syncVars>>

\* io.Copy(part, r): one chunk of the reader goes to the pipe.
ProducerCopyChunk ==
    /\ up.producer = "copy"
    /\ up.left > 0
    /\ \/ /\ Reading(up)
          /\ up' = [up EXCEPT !.left = @ - 1, !.count = @ + 1, !.written = @ + 1]
       \/ /\ up.rclosed
          /\ up' = SendErr([up EXCEPT !.producer = "exited"], "ErrWritingFileContents")
    /\ UNCHANGED <<nt, syncVars>>

\* io.Copy(part, r): the reader returns an error.
ProducerCopyFails ==
    /\ up.producer = "copy"
    /\ up' = SendErr([up EXCEPT !.producer = "exited"], "ErrWritingFileContents")
    /\ UNCHANGED <<nt, syncVars>>

\* io.Copy returned without error: with count 0 the producer offers
\* ErrNoContentsToUpload and returns.
ProducerCopyDone ==
    /\ up.producer = "copy"
    /\ up.left = 0
    /\ up' = IF up.count = 0
             THEN SendErr([up EXCEPT !.producer = "exited"], "ErrNoContentsToUpload")
             ELSE [up EXCEPT !.producer = "closeWriter"]
    /\ UNCHANGED <<nt, syncVars>>

\* select { case errChan <- writer.Close(): default: }  writer.Close writes
\* the closing boundary to the pipe; its result is offered.
ProducerCloseWriter ==
    /\ up.producer = "closeWriter"
    /\ \/ /\ Reading(up)
          /\ up' = SendErr([up EXCEPT !.producer = "closePipe", !.written = @ + 1], "nil")
       \/ /\ up.rclosed
          /\ up' = SendErr([up EXCEPT !.producer = "closePipe"], "ErrClosedPipe")
    /\ UNCHANGED <<nt, syncVars>>

\* select { case errChan <- bodyWriter.Close(): default: }  The write end of
\* the pipe is closed, the nil it returns is offered.
ProducerClosePipe ==
    /\ up.producer = "closePipe"
    /\ up' = SendErr([up EXCEPT !.producer = "exited", !.wclosed = TRUE], "nil")
    /\ UNCHANGED <<nt, syncVars>>

\* ConsumerNewRequest without the receive from contentTypeChan before Do.
ConsumerNewRequestThenDo ==
    /\ up.consumer = "newRequest"
    /\ \/ up' = [up EXCEPT !.consumer = "dispatch"]
       \/ up' = SendErr([up EXCEPT !.consumer = "exited"], "ErrCreatingHTTPRequest")
    /\ UNCHANGED <<nt, syncVars>>

\* http.NewRequest(method, url, bodyReader): on an error the consumer offers
\* ErrCreatingHTTPRequest and returns.
ConsumerNewRequest ==
    /\ up.consumer = "newRequest"
    /\ \/ up' = [up EXCEPT !.consumer = "recvCT"]
       \/ up' = SendErr([up EXCEPT !.consumer = "exited"], "ErrCreatingHTTPRequest")
    /\ UNCHANGED <<nt, syncVars>>

\* nt.client.Do(req) is called.
ConsumerDo ==
    /\ up.consumer = "dispatch"
    /\ up' = [up EXCEPT !.consumer = "inDo", !.dispatched = TRUE]
    /\ UNCHANGED <<nt, syncVars>>

\* Do returns an error: the transport has closed the body of the request,
\* which is the read end of the pipe.
ConsumerDoFails ==
    /\ up.consumer = "inDo"
    /\ up' = SendErr([up EXCEPT !.consumer = "exited", !.rclosed = TRUE],
                     "ErrDoingHTTPRequest")
    /\ UNCHANGED <<nt, syncVars>>

\* Do returns a response: the transport has read the body to its end.
ConsumerDoReturns ==
    /\ up.consumer = "inDo"
    /\ up.wclosed
    /\ \E r \in {"2xx", "non2xx"} :
          up' = [up EXCEPT !.consumer = "checkResponse", !.response = r, !.rclosed = TRUE]
    /\ UNCHANGED <<nt, syncVars>>

\* CheckResponse, then the error or the body of the response is offered.
ConsumerCheckResponse ==
    /\ up.consumer = "checkResponse"
    /\ IF up.response = "2xx"
       THEN up' \in SendBody([up EXCEPT !.consumer = "exited"])
       ELSE up' = SendErr([up EXCEPT !.consumer = "exited"], "ErrResponse")
    /\ UNCHANGED <<nt, syncVars>>

\* A process whose tree holds the root and the folder "a" and that uploads.
InitUpload ==
    /\ nt = UploadTree
    /\ cacheFile = gobEncode(UploadTree)
    /\ pc = "ready"
    /\ caller = "none"
    /\ line = NoLine
    /\ result = "none"
    /\ nlines = 0
    /\ folded = 0
    /\ ticks = 0
    /\ restarts = 0
    /\ cps = <<>>
    /\ pre = 0
    /\ failedAt = 0
    /\ atReset = None
    /\ saved = None
    /\ loaded = FALSE
    /\ reqCp = 0
    /\ iter = NoIter
    /\ up = NoUpload
    /\ cl = NoClose
    /\ mk = NoMkDirAll
    /\ pg = NoPurge
    /\ pr = NoProperty
    /\ fd = NoFind

NextUpload ==
    \/ UploadStart
    \/ MainSelect
    \/ UploadReturn
    \/ ProducerSendContentType
    \/ ProducerWriteField
    \/ ProducerCreateFormFile
    \/ ProducerCopyChunk
    \/ ProducerCopyFails
    \/ ProducerCopyDone
    \/ ProducerCloseWriter
    \/ ProducerClosePipe
    \/ ConsumerNewRequest
    \/ ConsumerDo
    \/ ConsumerDoFails
    \/ ConsumerDoReturns
    \/ ConsumerCheckResponse

SpecUpload == InitUpload /\ [][NextUpload]_vars

(***************************************************************************)
(* Client.Close and the background loops.  New starts the loop that        *)
(* refreshes the token and the loop that purges the trash, NewTree starts  *)
(* the loop that syncs.  Each loop selects on its done channel and on its  *)
(* ticker; when both are ready select takes either.  Client.Close puts a   *)
(* value in purgeTrashDone and in refreshTokenDone and calls Tree.Close,   *)
(* which puts a value in syncDone and saves the cache.  The channels have  *)
(* room for one value, so no send waits for its loop.  cl.main says where  *)
(* the thread that calls Close is; pc is the loop that syncs, "ready"      *)
(* when it is in its select.                                               *)
(***************************************************************************)
\* what the process has beside the cache file and what Close works on
loopVars ==
    <<caller, line, result, nlines, folded, ticks, restarts, cps, pre, failedAt,
      atReset, saved, loaded, reqCp, iter, up, mk, pg, pr, fd>>

\* c.purgeTrashDone <- struct{}{}
ClosePurgeTrashDone ==
    /\ cl.main = "open"
    /\ cl.purgeTrashDone = 0
    /\ cl' = [cl EXCEPT !.main = "purgeSignalled", !.purgeTrashDone = 1]
    /\ UNCHANGED <<nt, cacheFile, pc, loopVars>>

\* c.refreshTokenDone <- struct{}{}
CloseRefreshTokenDone ==
    /\ cl.main = "purgeSignalled"
    /\ cl.refreshTokenDone = 0
    /\ cl' = [cl EXCEPT !.main = "refreshSignalled", !.refreshTokenDone = 1]
    /\ UNCHANGED <<nt, cacheFile, pc, loopVars>>

\* Tree.Close: nt.syncDone <- struct{}{}
CloseSyncDone ==
    /\ cl.main = "refreshSignalled"
    /\ cl.syncDone = 0
    /\ cl' = [cl EXCEPT !.main = "syncSignalled", !.syncDone = 1]
    /\ UNCHANGED <<nt, cacheFile, pc, loopVars>>

\* Tree.Close: return nt.saveCache(), whatever the loops are doing.  Close
\* then returns to its caller.
CloseSaveCache ==
    /\ cl.main = "syncSignalled"
    /\ \E s \in saveCache(nt, cacheFile) : cacheFile' = s.file
    /\ cl' = [cl EXCEPT !.main = "closed"]
    /\ UNCHANGED <<nt, pc, loopVars>>

\* The loop that syncs takes the value of syncDone: it stops its ticker and
\* returns.
SyncLoopStop ==
    /\ pc = "ready"
    /\ cl.syncDone = 1
    /\ pc' = "stopped"
    /\ cl' = [cl EXCEPT !.syncDone = 0]
    /\ UNCHANGED <<nt, cacheFile, loopVars>>

\* The loop that purges the trash takes a tick and calls PurgeTrash.
PurgeTrashTick ==
    /\ cl.purgeTrash = "select"
    /\ cl.purgeTicks < MaxTicks
    /\ cl' = [cl EXCEPT !.purgeTrash = "working", !.purgeTicks = @ + 1]
    /\ UNCHANGED <<nt, cacheFile, pc, loopVars>>

\* PurgeTrash returned: its error is logged and the loop selects again.
PurgeTrashReturns ==
    /\ cl.purgeTrash = "working"
    /\ cl' = [cl EXCEPT !.purgeTrash = "select"]
    /\ UNCHANGED <<nt, cacheFile, pc, loopVars>>

\* The loop that purges the trash takes the value of purgeTrashDone.
PurgeTrashLoopStop ==
    /\ cl.purgeTrash = "select"
    /\ cl.purgeTrashDone = 1
    /\ cl' = [cl EXCEPT !.purgeTrash = "stopped", !.purgeTrashDone = 0]
    /\ UNCHANGED <<nt, cacheFile, pc, loopVars>>

\* The loop that refreshes the token takes a tick and calls RefreshToken.
RefreshTokenTick ==
    /\ cl.refreshToken = "select"
    /\ cl.refreshTicks < MaxTicks
    /\ cl' = [cl EXCEPT !.refreshToken = "working", !.refreshTicks = @ + 1]
    /\ UNCHANGED <<nt, cacheFile, pc, loopVars>>

\* RefreshToken returned: its error is logged and the loop selects again.
RefreshTokenReturns ==
    /\ cl.refreshToken = "working"
    /\ cl' = [cl EXCEPT !.refreshToken = "select"]
    /\ UNCHANGED <<nt, cacheFile, pc, loopVars>>

\* The loop that refreshes the token takes the value of refreshTokenDone.
RefreshTokenLoopStop ==
    /\ cl.refreshToken = "select"
    /\ cl.refreshTokenDone = 1
    /\ cl' = [cl EXCEPT !.refreshToken = "stopped", !.refreshTokenDone = 0]
    /\ UNCHANGED <<nt, cacheFile, pc, loopVars>>

\* A client that New has returned: its tree holds the root and the folder
\* "a", the three loops are in their select.
InitClose ==
    /\ nt = UploadTree
    /\ cacheFile = gobEncode(UploadTree)
    /\ pc = "ready"
    /\ caller = "none"
    /\ line = NoLine
    /\ result = "none"
    /\ nlines = 0
    /\ folded = 0
    /\ ticks = 0
    /\ restarts = 0
    /\ cps = <<>>
    /\ pre = 0
    /\ failedAt = 0
    /\ atReset = None
    /\ saved = None
    /\ loaded = TRUE
    /\ reqCp = 0
    /\ iter = NoIter
    /\ up = NoUpload
    /\ cl = NoClose
    /\ mk = NoMkDirAll
    /\ pg = NoPurge
    /\ pr = NoProperty
    /\ fd = NoFind

NextClose ==
    \/ Tick
    \/ SyncRequest
    \/ SyncLine
    \/ SyncFold
    \/ SyncLineDone
    \/ SyncLineFails
    \/ SyncFinish
    \/ LoopSyncDone
    \/ SyncLoopStop
    \/ PurgeTrashTick
    \/ PurgeTrashReturns
    \/ PurgeTrashLoopStop
    \/ RefreshTokenTick
    \/ RefreshTokenReturns
    \/ RefreshTokenLoopStop
    \/ ClosePurgeTrashDone
    \/ CloseRefreshTokenDone
    \/ CloseSyncDone
    \/ CloseSaveCache

SpecClose == InitClose /\ [][NextClose]_vars

(***************************************************************************)
(* MkDirAll.  mk.call counts the calls (the second call repeats the path   *)
(* of the first), mk.state says where the call is, mk.parts, mk.i and      *)
(* mk.folderNode are the variables of its loop.  mk.requests are the       *)
(* create-folder requests the call has sent, each with the id of the node  *)
(* the server answered with ("" when the request failed).  mk.before is    *)
(* the tree when the call began, mk.found the deepest node the path        *)
(* reached in it and mk.missing the segments after that node.  mk.node is  *)
(* the id of the node the call returned, mk.first that of the first call.  *)
(***************************************************************************)
\* what the process has beside the tree and the calls of MkDirAll,
\* PurgeNodes and Property
processVars ==
    <<cacheFile, pc, caller, line, result, nlines, folded, ticks, restarts,
      cps, pre, failedAt, atReset, saved, loaded, reqCp, iter, up, cl>>

\* the segments a path can have, and the paths handed to MkDirAll: up to
\* MaxDepth names, a leading slash, a doubled slash, other letter case
RECURSIVE PathsOver(_, _)
PathsOver(names, n) ==
    IF n = 0
    THEN {<<>>}
    ELSE PathsOver(names, n - 1) \cup
         {Append(q, x) : q \in {r \in PathsOver(names, n - 1) : Len(r) = n - 1}, x \in names}

MkDirPaths ==
    PathsOver({"Doc", "Pic"}, MaxDepth) \cup
    {<<"", "Pic">>, <<"Pic", "", "Pic">>, <<"Doc", "", "Pic">>, <<"PIC", "pic">>}

\* strings.Split(strings.Trim(path, "/"), "/"): the slashes that begin and
\* end the path are cut, and Split gives one empty part for the empty path.
RECURSIVE Trim(_)
Trim(path) ==
    IF path = <<>>
    THEN <<"">>
    ELSE IF Head(path) = ""
    THEN Trim(Tail(path))
    ELSE IF path[Len(path)] = ""
    THEN Trim(SubSeq(path, 1, Len(path) - 1))
    ELSE path

\* the ids the server gives to the folders it creates, and the next one
NewIds == <<"c1", "c2", "c3", "c4", "c5", "c6", "c7", "c8">>

Created(t) == {i \in 1..Len(NewIds) : NewIds[i] \in DOMAIN t.nodeIdMap}

\* the node the server answers a create-folder request with
CreatedFolder(id, name, parentId) ==
    [Id |-> id, Name |-> name, Kind |-> KindFolder, Status |-> StatusAvailable,
     Parents |-> <<parentId>>, IsRoot |-> FALSE]

\* CreateFolder without n.addChild(node): the node is stored in the index
\* only.
CreateFolderNotLinked(t, n, name, id) ==
    [t EXCEPT !.heap = Append(@, Obj(CreatedFolder(id, name, t.heap[n].Id), 0)),
              !.nodeIdMap = Put(@, id, Len(t.heap) + 1)]

\* Tree.CreateFolder(n, name, ...) when the request succeeds and the server
\* answers with the node id: the node is stored in the index and added to
\* the children of n.
CreateFolder(t, n, name, id) ==
    LET new == Len(t.heap) + 1
        t1 == [t EXCEPT !.heap = Append(@, Obj(CreatedFolder(id, name, t.heap[n].Id), 0)),
                        !.nodeIdMap = Put(@, id, new)]
    IN  addChild(t1, n, new)

\* the errors CreateFolder returns when the request fails
CreateFolderErrors == {"ErrDoingHTTPRequest", "ErrResponse", "ErrJSONDecodingResponseBody"}

\* the number of leading segments of segs that resolve in the tree t
Resolved(t, segs) ==
    CHOOSE j \in 0..Len(segs) :
        /\ FindNode(t, SubSeq(segs, 1, j)).err = "nil"
        /\ j < Len(segs) => FindNode(t, SubSeq(segs, 1, j + 1)).err # "nil"

\* MkDirAll returns to its caller.
MkDirAllReturns(m, err, id) ==
    [m EXCEPT !.state = "returned", !.result = err, !.node = id,
              !.first = IF m.call = 1 /\ err = "nil" THEN id ELSE @]

\* MkDirAll(path) up to its loop: the short-circuit when FindNode resolves
\* the path.  The first call takes any path, the second call the path of a
\* first call that returned nil.
MkDirAllCall ==
    /\ \/ mk.state = "idle"
       \/ mk.state = "returned" /\ mk.call = 1 /\ mk.result = "nil"
    /\ nt.Node # 0
    /\ \E path \in IF mk.call = 0 THEN MkDirPaths ELSE {mk.path} :
          LET segs == SelectSeq(path, LAMBDA seg : seg # "")
              j == Resolved(nt, segs)
              m == [mk EXCEPT !.call = @ + 1, !.path = path, !.parts = Trim(path),
                              !.i = 1, !.folderNode = nt.Node, !.requests = <<>>,
                              !.result = "none", !.node = "", !.before = nt,
                              !.found = FindNode(nt, SubSeq(segs, 1, j)).node,
                              !.missing = SubSeq(segs, j + 1, Len(segs))]
              f == FindNode(nt, path)
          IN  mk' = IF f.err = "nil"
                    THEN IF IsDir(nt.heap[f.node])
                         THEN MkDirAllReturns(m, "nil", nt.heap[f.node].Id)
                         ELSE MkDirAllReturns(m, "ErrFileExistsAndIsNotFolder", "")
                    ELSE [m EXCEPT !.state = "loop"]
    /\ nt' = nt
    /\ UNCHANGED <<processVars, pg, pr, fd>>

\* MkDirAllStep that creates every folder under the root.
MkDirAllStepUnderRoot ==
    /\ mk.state = "loop"
    /\ mk.i <= Len(mk.parts)
    /\ LET f == FindNode(nt, SubSeq(mk.parts, 1, mk.i))
           id == NewIds[Cardinality(Created(nt)) + 1]
           goOn(m, next) ==
               IF IsDir(nt'.heap[next])
               THEN [m EXCEPT !.folderNode = next, !.i = @ + 1]
               ELSE MkDirAllReturns(m, "ErrCannotCreateANodeUnderAFile", "")
       IN  IF f.err = "nil"
           THEN nt' = nt /\ mk' = goOn(mk, f.node)
           ELSE \/ /\ nt' = CreateFolder(nt, nt.Node, mk.parts[mk.i], id)
                   /\ mk' = goOn([mk EXCEPT !.requests = Append(@,
                                      [parent |-> nt.heap[nt.Node].Id,
                                       name |-> mk.parts[mk.i], id |-> id])],
                                 nt'.nodeIdMap[id])
                \/ /\ nt' = nt
                   /\ \E e \in CreateFolderErrors :
                         mk' = MkDirAllReturns(
                                   [mk EXCEPT !.requests = Append(@,
                                       [parent |-> nt.heap[nt.Node].Id,
                                        name |-> mk.parts[mk.i], id |-> ""])], e, "")
    /\ UNCHANGED <<processVars, pg, pr, fd>>

\* MkDirAllStep without the test nextNode.IsDir().
MkDirAllStepUnderAFile ==
    /\ mk.state = "loop"
    /\ mk.i <= Len(mk.parts)
    /\ LET f == FindNode(nt, SubSeq(mk.parts, 1, mk.i))
           id == NewIds[Cardinality(Created(nt)) + 1]
           goOn(m, next) == [m EXCEPT !.folderNode = next, !.i = @ + 1]
       IN  IF f.err = "nil"
           THEN nt' = nt /\ mk' = goOn(mk, f.node)
           ELSE \/ /\ nt' = CreateFolder(nt, mk.folderNode, mk.parts[mk.i], id)
                   /\ mk' = goOn([mk EXCEPT !.requests = Append(@,
                                      [parent |-> nt.heap[mk.folderNode].Id,
                                       name |-> mk.parts[mk.i], id |-> id])],
                                 nt'.nodeIdMap[id])
                \/ /\ nt' = nt
                   /\ \E e \in CreateFolderErrors :
                         mk' = MkDirAllReturns(
                                   [mk EXCEPT !.requests = Append(@,
                                       [parent |-> nt.heap[mk.folderNode].Id,
                                        name |-> mk.parts[mk.i], id |-> ""])], e, "")
    /\ UNCHANGED <<processVars, pg, pr, fd>>

\* One iteration of the loop of MkDirAll over the parts of the path:
\* FindNode of the path up to the part; when it is not found CreateFolder
\* under folderNode, whose error ends the call; a node that is no folder
\* ends the call with ErrCannotCreateANodeUnderAFile; otherwise the node is
\* the folderNode of the next part.
MkDirAllStep ==
    /\ mk.state = "loop"
    /\ mk.i <= Len(mk.parts)
    /\ LET f == FindNode(nt, SubSeq(mk.parts, 1, mk.i))
           id == NewIds[Cardinality(Created(nt)) + 1]
           goOn(m, next) ==
               IF IsDir(nt'.heap[next])
               THEN [m EXCEPT !.folderNode = next, !.i = @ + 1]
               ELSE MkDirAllReturns(m, "ErrCannotCreateANodeUnderAFile", "")
       IN  IF f.err = "nil"
           THEN nt' = nt /\ mk' = goOn(mk, f.node)
           ELSE \/ /\ nt' = CreateFolder(nt, mk.folderNode, mk.parts[mk.i], id)
                   /\ mk' = goOn([mk EXCEPT !.requests = Append(@,
                                      [parent |-> nt.heap[mk.folderNode].Id,
                                       name |-> mk.parts[mk.i], id |-> id])],
                                 nt'.nodeIdMap[id])
                \/ /\ nt' = nt
                   /\ \E e \in CreateFolderErrors :
                         mk' = MkDirAllReturns(
                                   [mk EXCEPT !.requests = Append(@,
                                       [parent |-> nt.heap[mk.folderNode].Id,
                                        name |-> mk.parts[mk.i], id |-> ""])], e, "")
    /\ UNCHANGED <<processVars, pg, pr, fd>>

\* The loop is over: MkDirAll returns folderNode.
MkDirAllDone ==
    /\ mk.state = "loop"
    /\ mk.i > Len(mk.parts)
    /\ nt' = nt
    /\ mk' = MkDirAllReturns(mk, "nil", nt.heap[mk.folderNode].Id)
    /\ UNCHANGED <<processVars, pg, pr, fd>>

\* the tree with the root, the folder "a" (Doc) and the file "b" (Doc) in it
SeedTree ==
    Canon(buildNodeTree([updateNodes(EmptyTree, SeedNodes, 1) EXCEPT !.Checkpoint = 1],
                        IdOrder, 1))

\* A process whose Sync has left one of two trees and that calls MkDirAll.
InitMkDirAll ==
    /\ nt \in {SeedTree, UploadTree}
    /\ cacheFile = gobEncode(nt)
    /\ pc = "ready"
    /\ caller = "none"
    /\ line = NoLine
    /\ result = "none"
    /\ nlines = 0
    /\ folded = 0
    /\ ticks = 0
    /\ restarts = 0
    /\ cps = <<>>
    /\ pre = 0
    /\ failedAt = 0
    /\ atReset = None
    /\ saved = None
    /\ loaded = TRUE
    /\ reqCp = 0
    /\ iter = NoIter
    /\ up = NoUpload
    /\ cl = NoClose
    /\ mk = NoMkDirAll
    /\ pg = NoPurge
    /\ pr = NoProperty
    /\ fd = NoFind

NextMkDirAll ==
    \/ MkDirAllCall
    \/ MkDirAllStep
    \/ MkDirAllDone

SpecMkDirAll == InitMkDirAll /\ [][NextMkDirAll]_vars

(***************************************************************************)
(* Properties of Sync.                                                     *)
(***************************************************************************)
\* the checkpoint the tree holds while the line number k of the stream of the
\* Sync in progress is being read or folded
CheckpointBeforeLine(k) == IF k = 1 THEN pre ELSE cps[k - 1]

\* C10: if Sync fails while processing line k of the change stream, the
\* checkpoint of the tree is the checkpoint of line k-1, or the checkpoint
\* from before the Sync when k = 1; while the nodes of a line are being
\* folded the checkpoint is still that of the line before, it is assigned
\* only when the whole line has been folded, line after line.
C10_CheckpointOfFailedSync ==
    /\ (pc = "returned" /\ failedAt > 0) =>
           /\ Len(cps) = failedAt - 1
           /\ nt.Checkpoint = CheckpointBeforeLine(failedAt)
    /\ pc = "fold" =>
           /\ Len(cps) = nlines - 1
           /\ nt.Checkpoint = CheckpointBeforeLine(nlines)

\* Sync failed at its second line, after a first line with at least one node
\* was folded and its checkpoint stored.
C10_Witness ==
    /\ pc = "returned"
    /\ failedAt = 2
    /\ line.n > 0
    /\ nt.Checkpoint = line.cp
    /\ nt.Checkpoint # pre

\* what the index of the tree holds: for every id the fields of its object
IndexFields(t) == [id \in DOMAIN t.nodeIdMap |-> Fields(t.heap[t.nodeIdMap[id]])]

\* C11: a line with end:true terminates the processing of Sync.  The step
\* that reads it leaves the loop: no node of that line is folded (the index
\* holds what it held, the count of folded nodes is the same), the checkpoint
\* of the line is not stored, and the checkpoint after the Sync is that of
\* the last line before the end line (the one from before the Sync when
\* there is none); no later line is read or folded by this Sync.
C11_EndLineTerminates ==
    /\ [](line.end => (pc = "returned" /\ line.n = 0))
    /\ [][(pc = "scan" /\ line'.end) =>
              /\ pc' = "returned"
              /\ IndexFields(nt') = IndexFields(nt)
              /\ folded' = folded
              /\ cps' = cps
              /\ nt'.Checkpoint = nt.Checkpoint
              /\ nt'.Checkpoint = CheckpointBeforeLine(Len(cps) + 1)]_vars

\* A Sync folded a line with a node, stored its checkpoint, then read an end
\* line that carries another checkpoint, and returned nil.
C11_Witness ==
    /\ pc = "returned"
    /\ result = "nil"
    /\ line.end
    /\ line.cp # 0
    /\ Len(cps) = 1
    /\ folded > 0
    /\ nt.Checkpoint = cps[1]
    /\ nt.Checkpoint # line.cp

SyncInProgress == pc \in {"request", "scan", "fold", "returned"}

\* C13: once Close has returned the background loops are drained: no
\* background Sync, purge of the trash or refresh of the token starts
\* afterwards, and none is in progress (mutating the tree, writing the cache
\* file).
C13_LoopsDrained ==
    /\ [](cl.main = "closed" =>
             /\ ~SyncInProgress
             /\ cl.purgeTrash # "working"
             /\ cl.refreshToken # "working")
    /\ [][cl.main = "closed" => (nt' = nt /\ cacheFile' = cacheFile)]_vars

\* the object of the index entry id hangs in the Nodes map of one of its
\* parents that the index holds, under its lowercased name
LinkedToAParent(t, id) ==
    LET a == t.nodeIdMap[id]
        n == t.heap[a]
    IN  \E i \in 1..Len(n.Parents) :
           /\ n.Parents[i] \in DOMAIN t.nodeIdMap
           /\ LET kids == Kids(t, t.nodeIdMap[n.Parents[i]])
              IN  /\ ToLower(n.Name) \in DOMAIN kids
                  /\ kids[ToLower(n.Name)] = a

\* C1: after every successful Sync, every id of the index is the root or has
\* a parent id that the index holds too, and its node is in the children map
\* of that parent under its lowercased name.
C1_IndexIsClosed ==
    (pc = "returned" /\ result = "nil") =>
        \A id \in DOMAIN nt.nodeIdMap :
            \/ nt.heap[nt.nodeIdMap[id]].IsRoot
            \/ nt.nodeIdMap[id] = nt.Node
            \/ LinkedToAParent(nt, id)

\* C2: when the stream delivers a line with reset:true, Sync returns
\* MustFetchFresh and the tree (root, index, children maps) and the checkpoint
\* are what they were before that line was read.
C2_ResetLeavesTheTree ==
    (pc = "returned" /\ atReset.seen) =>
        /\ result = "ErrMustFetchFresh"
        /\ nt = atReset.tree

\* C3: cache round trip.  A tree that a successful Sync left and saved, loaded
\* by the next process: loadCache returns, every id of the index of the saved
\* tree is found by FindById with the same id, name, kind, status and
\* parents, the checkpoint is the same, and every object that was reachable
\* from the root is reachable by the same path.
C3_CacheRoundTrip ==
    (saved.seen /\ cacheFile = gobEncode(saved.tree)) =>
        /\ pc # "panicked"
        /\ (pc = "request" /\ caller = "NewTree" /\ loaded) =>
               /\ nt.Checkpoint = saved.tree.Checkpoint
               /\ \A id \in DOMAIN saved.tree.nodeIdMap :
                      /\ FindById(nt, id) # 0
                      /\ Fields(nt.heap[FindById(nt, id)])
                            = Fields(saved.tree.heap[FindById(saved.tree, id)])
               /\ saved.tree.Node # 0 =>
                      \A p \in PathsFrom(saved.tree, saved.tree.Node, <<>>) :
                          /\ descend(nt, nt.Node, p, 1) # 0
                          /\ Fields(nt.heap[descend(nt, nt.Node, p, 1)])
                                = Fields(saved.tree.heap[descend(saved.tree, saved.tree.Node, p, 1)])

(***************************************************************************)
(* Properties of the upload.                                               *)
(***************************************************************************)
\* the states in which the producer is in a write to the pipe
Writing == {"writeMeta", "createFormFile", "closeWriter"}

\* C4: an upload whose reader yields no byte returns ErrNoContentsToUpload
\* to the caller whatever the interleaving (once the producer has found the
\* count to be 0 and offered the error, and the request has not failed), and
\* no node is stored in the index or added to the children of the parent.
C4_NoContentsToUpload ==
    up.size = 0 =>
        /\ ("ErrNoContentsToUpload" \in up.offered /\ "ErrDoingHTTPRequest" \notin up.offered)
              => up.result = "ErrNoContentsToUpload"
        /\ "b" \notin DOMAIN nt.nodeIdMap
        /\ \A a \in Reach(nt, nt.Node) : nt.heap[a].Id # "b"

\* C5: whatever the interleaving, upload returns: the caller is never left
\* waiting in its select when the producer and the consumer have both
\* returned, and it returns the node only when the response was a 2xx.
C5_UploadReturns ==
    /\ ~(up.main = "waiting" /\ up.producer = "exited" /\ up.consumer = "exited")
    /\ up.result = "node" => up.response = "2xx"

\* C6: after upload has returned an error, the consumer is not left reading
\* a pipe that the producer has left open, and the producer is not left at
\* the content-type rendezvous or in a write to a pipe that the consumer has
\* left open.
C6_PipeIsBroken ==
    (up.main \in {"returned", "done"} /\ up.result # "node") =>
        /\ ~(up.consumer = "inDo" /\ up.producer = "exited" /\ ~up.wclosed)
        /\ ~(up.producer = "sendCT" /\ up.consumer = "exited")
        /\ ~(up.producer \in Writing /\ up.consumer = "exited" /\ ~up.rclosed)

\* C7: the consumer calls Do only with the Content-Type of the producer in
\* the header of its request, received through the rendezvous, and no write
\* of the producer to the pipe has completed before the rendezvous.
C7_ContentTypeBeforeDispatch ==
    /\ up.dispatched => up.header = FormDataContentType
    /\ up.header = "" => (up.written = 0 /\ up.producer \in {"none", "sendCT"})

\* The request was sent with the header, the body went through the pipe and
\* the caller got the node.
C7_Witness ==
    /\ up.main = "done"
    /\ up.result = "node"
    /\ up.dispatched
    /\ up.written > 3
    /\ up.header = FormDataContentType

C9_FetchThenSyncAgain ==
    iter.mustFetch =>
        /\ pc # "panicked"
        /\ pc = "ready" => (iter.fetched /\ iter.syncs >= 2 /\ nt.Checkpoint # 0)

(***************************************************************************)
(* Properties of MkDirAll.                                                 *)
(***************************************************************************)
\* C14: MkDirAll is idempotent.  After a first MkDirAll of a path returned
\* nil, a second MkDirAll of the same path returns nil and the node with the
\* same id, sends no create-folder request and leaves the tree as it is.
C14_MkDirAllIdempotent ==
    mk.call = 2 =>
        /\ mk.state = "returned"
        /\ mk.result = "nil"
        /\ mk.node = mk.first
        /\ mk.requests = <<>>
        /\ nt = mk.before

\* The second MkDirAll of a path of three segments, all of which the first
\* call created.
C14_Witness ==
    /\ mk.call = 2
    /\ mk.state = "returned"
    /\ Len(LowerParts(mk.path)) = 3
    /\ Cardinality(Created(nt)) = 3
    /\ mk.node = "c3"

\* the node of the request q hangs in the index and in the children of the
\* parent the request names, under its lowercased name, and is a folder
CreatedAndLinked(t, q) ==
    /\ q.id \in DOMAIN t.nodeIdMap
    /\ q.parent \in DOMAIN t.nodeIdMap
    /\ IsDir(t.heap[t.nodeIdMap[q.id]])
    /\ ToLower(q.name) \in DOMAIN Kids(t, t.nodeIdMap[q.parent])
    /\ Kids(t, t.nodeIdMap[q.parent])[ToLower(q.name)] = t.nodeIdMap[q.id]

\* C15: MkDirAll on a path whose last k segments do not exist sends exactly
\* k create-folder requests, from the root towards the leaf: request n names
\* segment n of the missing ones and, as parent, the node found for the
\* segment before the first missing one or created by request n - 1.  Every
\* folder created is in the index and under its parent as soon as its
\* request is answered, and the node returned is a folder that FindNode
\* resolves at the path.
C15_MkDirAllCreatesMissing ==
    mk.call >= 1 =>
        /\ Len(mk.requests) <= Len(mk.missing)
        /\ \A n \in 1..Len(mk.requests) :
               /\ mk.requests[n].name = mk.missing[n]
               /\ mk.requests[n].parent = IF n = 1
                                          THEN mk.before.heap[mk.found].Id
                                          ELSE mk.requests[n - 1].id
               /\ mk.requests[n].id # "" => CreatedAndLinked(nt, mk.requests[n])
        /\ (mk.state = "returned" /\ mk.result = "nil") =>
               /\ Len(mk.requests) = Len(mk.missing)
               /\ mk.node \in DOMAIN nt.nodeIdMap
               /\ IsDir(nt.heap[nt.nodeIdMap[mk.node]])
               /\ FindNode(nt, mk.path) = [err |-> "nil", node |-> nt.nodeIdMap[mk.node]]

\* MkDirAll of Doc/Pic/Pic returned: the folder Doc was there, the two
\* folders Pic were created, the first under Doc.
C15_Witness ==
    /\ mk.call = 1
    /\ mk.state = "returned"
    /\ mk.result = "nil"
    /\ Len(mk.requests) = 2
    /\ mk.requests[1].parent = "a"
    /\ mk.requests[2].parent = "c1"
    /\ mk.node = "c2"

\* a leading part of the path, not the whole of it, resolves in the tree t
\* to a node that is no folder
UnderANonFolder(t, path) ==
    LET segs == SelectSeq(path, LAMBDA seg : seg # "")
    IN  \E j \in 1..(Len(segs) - 1) :
           /\ FindNode(t, SubSeq(segs, 1, j)).err = "nil"
           /\ ~IsDir(t.heap[FindNode(t, SubSeq(segs, 1, j)).node])

\* C16: MkDirAll fails with ErrFileExistsAndIsNotFolder when the whole path
\* resolves to a node that is no folder, and with
\* ErrCannotCreateANodeUnderAFile when a proper leading part of it does; in
\* both cases no create-folder request is sent and the tree is unchanged.
C16_MkDirAllUnderAFile ==
    mk.call >= 1 =>
        /\ (/\ FindNode(mk.before, mk.path).err = "nil"
            /\ ~IsDir(mk.before.heap[FindNode(mk.before, mk.path).node])) =>
               /\ mk.state = "returned"
               /\ mk.result = "ErrFileExistsAndIsNotFolder"
               /\ mk.requests = <<>>
               /\ nt = mk.before
        /\ UnderANonFolder(mk.before, mk.path) =>
               /\ mk.requests = <<>>
               /\ nt = mk.before
               /\ mk.state = "returned" => mk.result = "ErrCannotCreateANodeUnderAFile"
        /\ mk.result \in {"ErrFileExistsAndIsNotFolder", "ErrCannotCreateANodeUnderAFile"} =>
               (mk.requests = <<>> /\ nt = mk.before)

\* MkDirAll of Doc/Doc/Pic, where Doc/Doc is a file, has returned.
C16_Witness ==
    /\ mk.state = "returned"
    /\ mk.result = "ErrCannotCreateANodeUnderAFile"
    /\ mk.path = <<"Doc", "Doc", "Pic">>
    /\ mk.i = 2

\* ---------------------------------------------------------------------------
\* Client.PurgeNodes (src/client/trash.go)
\* ---------------------------------------------------------------------------

\* The chunk size PurgeNodes hands to slicesChunk.
PurgeChunkSize == 50

Min(a, b) == IF a < b THEN a ELSE b

\* slicesChunk losing a last chunk shorter than n.
RECURSIVE slicesChunkWholeOnly(_, _, _)
slicesChunkWholeOnly(slice, n, i) ==
    IF i + n <= Len(slice)
    THEN <<SubSeq(slice, i + 1, i + n)>> \o slicesChunkWholeOnly(slice, n, i + n)
    ELSE <<>>

\* slicesChunk: the chunks sent to the channel from offset i on, in the order
\* they are sent: slice[i : i+end] with end = min(n, len(slice[i:])), i += n.
RECURSIVE slicesChunk(_, _, _)
slicesChunk(slice, n, i) ==
    IF i < Len(slice)
    THEN LET end == Min(n, Len(slice) - i)
         IN  <<SubSeq(slice, i + 1, i + end)>> \o slicesChunk(slice, n, i + n)
    ELSE <<>>

\* The ids of the nodes handed to PurgeNodes: n distinct ids in list order.
IdList(n) == [k \in 1..n |-> k]

\* The errorMap of a bulk-purge response for a chunk: empty, or one id of the
\* chunk with a status code.
ErrorMaps(chunk) == {EmptyMap, [x \in {chunk[1]} |-> 500], [x \in {chunk[Len(chunk)]} |-> 404]}

PurgeRequestErrors == {"ErrDoingHTTPRequest", "ErrResponse", "ErrJSONDecodingResponseBody"}

purgeOthers == <<nt, cacheFile, pc, caller, line, result, nlines, folded, ticks, restarts,
                 cps, pre, failedAt, atReset, saved, loaded, reqCp, iter, up, cl, mk, pr, fd>>

\* PurgeNodes is called with a list of nodes: the id list is built and the
\* chunks are taken from it.
PurgeNodesCall ==
    /\ pg.state = "idle"
    /\ \E n \in 0..MaxIds :
        pg' = [NoPurge EXCEPT !.state = "loop", !.nodeIds = IdList(n)]
    /\ UNCHANGED purgeOthers

\* One pass of the loop where the first non-empty errorMap ends the call.
PurgeRequestStopsOnErrorMap ==
    /\ pg.state = "loop"
    /\ pg.i < Len(slicesChunk(pg.nodeIds, PurgeChunkSize, 0))
    /\ LET chunk == slicesChunk(pg.nodeIds, PurgeChunkSize, 0)[pg.i + 1]
           sent == [pg EXCEPT !.i = @ + 1, !.requests = Append(@, chunk)]
       IN  \/ \E err \in PurgeRequestErrors :
                pg' = [sent EXCEPT !.state = "returned", !.result = [err |-> err, maps |-> <<>>]]
           \/ \E errorMap \in ErrorMaps(chunk) :
                pg' = IF DOMAIN errorMap # {}
                      THEN [sent EXCEPT !.answered = Append(@, errorMap),
                                        !.errorMaps = Append(@, errorMap),
                                        !.state = "returned",
                                        !.result = [err |-> "PurgeNodeErrors",
                                                    maps |-> Append(pg.errorMaps, errorMap)]]
                      ELSE [sent EXCEPT !.answered = Append(@, errorMap)]
    /\ UNCHANGED purgeOthers

\* One pass of the loop: the next chunk is received from the channel and sent
\* as one bulk-purge request; Do, CheckResponse or the decoding of the body
\* can fail, and that returns at once; otherwise a non-empty errorMap of the
\* response is appended to errorMaps.
PurgeRequest ==
    /\ pg.state = "loop"
    /\ pg.i < Len(slicesChunk(pg.nodeIds, PurgeChunkSize, 0))
    /\ LET chunk == slicesChunk(pg.nodeIds, PurgeChunkSize, 0)[pg.i + 1]
           sent == [pg EXCEPT !.i = @ + 1, !.requests = Append(@, chunk)]
       IN  \/ \E err \in PurgeRequestErrors :
                pg' = [sent EXCEPT !.state = "returned", !.result = [err |-> err, maps |-> <<>>]]
           \/ \E errorMap \in ErrorMaps(chunk) :
                pg' = [sent EXCEPT !.answered = Append(@, errorMap),
                                   !.errorMaps = IF DOMAIN errorMap # {}
                                                 THEN Append(@, errorMap) ELSE @]
    /\ UNCHANGED purgeOthers

\* The channel is closed: the call returns the error made of errorMaps when
\* there is one, and nil otherwise.
PurgeNodesReturn ==
    /\ pg.state = "loop"
    /\ pg.i = Len(slicesChunk(pg.nodeIds, PurgeChunkSize, 0))
    /\ pg' = [pg EXCEPT !.state = "returned",
                        !.result = IF Len(pg.errorMaps) > 0
                                   THEN [err |-> "PurgeNodeErrors", maps |-> pg.errorMaps]
                                   ELSE [err |-> "nil", maps |-> <<>>]]
    /\ UNCHANGED purgeOthers

NextPurge == PurgeNodesCall \/ PurgeRequest \/ PurgeNodesReturn

SpecPurge == Init /\ [][NextPurge]_vars

\* ---------------------------------------------------------------------------
\* Properties of PurgeNodes
\* ---------------------------------------------------------------------------

\* The smallest number of chunks of at most PurgeChunkSize ids holding n ids.
CeilDiv(n, d) == (n + d - 1) \div d

RECURSIVE Concat(_)
Concat(seqs) == IF seqs = <<>> THEN <<>> ELSE Head(seqs) \o Concat(Tail(seqs))

\* Every request of the call got a response that was decoded.
AllRequestsSucceeded == pg.state = "returned" /\ pg.result.err \notin PurgeRequestErrors

\* C17: when every request of PurgeNodes succeeds, a list of n ids is sent in
\* exactly ceil(n/50) requests, each of at most 50 ids and all but the last of
\* exactly 50, and the requests' id lists, concatenated in the order of issue,
\* are the input list; 123 ids go as 50, 50, 23 and no id as no request.
C17_PurgeNodesChunks ==
    AllRequestsSucceeded =>
        /\ Len(pg.requests) = CeilDiv(Len(pg.nodeIds), PurgeChunkSize)
        /\ \A k \in 1..Len(pg.requests) :
            /\ Len(pg.requests[k]) >= 1
            /\ Len(pg.requests[k]) <= PurgeChunkSize
            /\ (k < Len(pg.requests) => Len(pg.requests[k]) = PurgeChunkSize)
        /\ Concat(pg.requests) = pg.nodeIds
        /\ (Len(pg.nodeIds) = 0 => pg.requests = <<>>)
        /\ (Len(pg.nodeIds) = 123 =>
                /\ Len(pg.requests) = 3
                /\ Len(pg.requests[1]) = 50
                /\ Len(pg.requests[2]) = 50
                /\ Len(pg.requests[3]) = 23)

C17_Witness ==
    /\ AllRequestsSucceeded
    /\ Len(pg.nodeIds) = 123
    /\ Len(pg.requests) = 3
    /\ Len(pg.requests[3]) = 23
    /\ pg.result.err = "nil"

NonEmpty(errorMap) == DOMAIN errorMap # {}

\* C18: with every HTTP call succeeding, PurgeNodes fails exactly when some
\* response carried a non-empty errorMap; every batch is still issued, and
\* the error returned holds exactly the non-empty error maps in batch order.
C18_PurgeNodesErrorMaps ==
    AllRequestsSucceeded =>
        /\ (pg.result.err # "nil") <=> (\E k \in 1..Len(pg.answered) : NonEmpty(pg.answered[k]))
        /\ pg.result.err \in {"nil", "PurgeNodeErrors"}
        /\ Len(pg.answered) = CeilDiv(Len(pg.nodeIds), PurgeChunkSize)
        /\ Len(pg.requests) = Len(pg.answered)
        /\ pg.result.maps = SelectSeq(pg.answered, NonEmpty)

C18_Witness ==
    /\ AllRequestsSucceeded
    /\ Len(pg.requests) = 3
    /\ NonEmpty(pg.answered[1])
    /\ ~NonEmpty(pg.answered[2])
    /\ NonEmpty(pg.answered[3])
    /\ pg.result.err = "PurgeNodeErrors"
    /\ pg.result.maps = <<pg.answered[1], pg.answered[3]>>

\* ---------------------------------------------------------------------------
\* nodeProperty (src/node/node.go)
\* ---------------------------------------------------------------------------

NodePropertyKeysMaxCount == 10
NodePropertyKeyMaxSize == 50
NodePropertyValueMaxSize == 500

\* Strings are sequences of characters. The characters the classes a-z, A-Z,
\* 0-9 and _ of NodePropertyKeyCheckRegex hold, among those of the model.
WordChars == {"a", "z", "A", "Z", "0", "9", "_"}

\* len() of a Go string counts bytes: the characters outside ASCII take two.
ByteLen(c) == IF c = "é" THEN 2 ELSE 1

\* The sum of the bytes of the characters, each taking one byte or two.
len(str) ==
    Cardinality({i \in 1..Len(str) : ByteLen(str[i]) >= 1})
        + Cardinality({i \in 1..Len(str) : ByteLen(str[i]) >= 2})

\* regexp.MatchString("^[a-zA-Z0-9_]*$", key): every character of the whole
\* key is in the class; the empty key matches.
MatchKey(key) == \A i \in 1..Len(key) : key[i] \in WordChars

\* The string of n characters c.
Repeat(c, n) == [i \in 1..n |-> c]

\* Keys the regex and the length accept: one more than a mapping can hold,
\* the empty key and a key of the greatest length among them.
StoredKeys == {Repeat("a", n) : n \in 0..(NodePropertyKeysMaxCount - 3)}
NewKeys == {<<"A", "z", "_", "0", "9", "Z">>, <<"_">>, Repeat("a", NodePropertyKeyMaxSize)}

\* Keys that are rejected: a hyphen, a space, a letter outside ASCII, a line
\* feed after a valid key, and a key one longer than the greatest length.
InvalidKeys ==
    {<<"a", "-", "a">>, <<" ">>, <<"é">>, <<"a", "\n">>,
     Repeat("a", NodePropertyKeyMaxSize + 1)}

\* The keys the operations are called with.
CalledKeys == {<<>>, <<"a">>} \cup NewKeys \cup InvalidKeys

ShortValue == <<"v">>
LongestValue == Repeat("v", NodePropertyValueMaxSize)
TooLongValue == Repeat("v", NodePropertyValueMaxSize + 1)
\* Fewer characters than NodePropertyValueMaxSize, more bytes.
TooManyBytesValue == Repeat("é", (NodePropertyValueMaxSize \div 2) + 1)

\* The pairs Set is called with.
SetInputs ==
    {<<k, ShortValue>> : k \in CalledKeys}
        \cup {<<<<>>, <<>>>>, <<<<"a">>, LongestValue>>, <<<<>>, TooManyBytesValue>>}
        \cup {<<k, TooLongValue>> : k \in {<<>>, <<"_">>, <<"a", "-", "a">>}}

\* The maps SetAll is called with.
SetAllMaps ==
    {[k \in {<<"_">>, Repeat("a", NodePropertyKeyMaxSize)} |-> ShortValue],
     [k \in {<<>>, <<"a", "-", "a">>, <<"a">>} |-> IF k = <<>> THEN TooLongValue ELSE ShortValue],
     EmptyMap}

\* The lists RemoveAll is called with.
RemoveLists == {<<>>, <<<<>>, <<"a">>>>, <<<<"_">>, <<"_">>, <<" ">>>>}

Has(props, key) == key \in DOMAIN props
Size(props) == Cardinality(DOMAIN props)
Remove(props, key) == [k \in DOMAIN props \ {key} |-> props[k]]

\* Set refusing every key once the mapping is full.
SetCountingStoredKeys(props, key, value) ==
    IF ~MatchKey(key) \/ len(key) > NodePropertyKeyMaxSize
    THEN [err |-> "ErrNodePropertyInvalidKey", props |-> props]
    ELSE IF Size(props) = NodePropertyKeysMaxCount
    THEN [err |-> "ErrNodePropertyMaxKeys", props |-> props]
    ELSE IF len(value) > NodePropertyValueMaxSize
    THEN [err |-> "ErrNodePropertyInvalidValue", props |-> props]
    ELSE [err |-> "nil", props |-> Put(props, key, value)]

\* nodeProperty.Set: the error it returns and the mapping it leaves.
Set(props, key, value) ==
    IF ~MatchKey(key) \/ len(key) > NodePropertyKeyMaxSize
    THEN [err |-> "ErrNodePropertyInvalidKey", props |-> props]
    ELSE IF ~Has(props, key) /\ Size(props) = NodePropertyKeysMaxCount
    THEN [err |-> "ErrNodePropertyMaxKeys", props |-> props]
    ELSE IF len(value) > NodePropertyValueMaxSize
    THEN [err |-> "ErrNodePropertyInvalidValue", props |-> props]
    ELSE [err |-> "nil", props |-> Put(props, key, value)]

\* nodeProperty.SetAll over the keys in the order the map is ranged over: the
\* result of each Set, and the mapping left.
RECURSIVE SetAll(_, _, _)
SetAll(props, m, order) ==
    IF order = <<>>
    THEN [errs |-> <<>>, props |-> props]
    ELSE LET one == Set(props, Head(order), m[Head(order)])
             rest == SetAll(one.props, m, Tail(order))
         IN  [errs |-> <<one.err>> \o rest.errs, props |-> rest.props]

RECURSIVE RemoveAll(_, _)
RemoveAll(props, keys) ==
    IF keys = <<>> THEN props ELSE RemoveAll(Remove(props, Head(keys)), Tail(keys))

propertyOthers == <<nt, cacheFile, pc, caller, line, result, nlines, folded, ticks, restarts,
                    cps, pre, failedAt, atReset, saved, loaded, reqCp, iter, up, cl, mk, pg, fd>>

PropertySet ==
    /\ \E in \in SetInputs :
        LET r == Set(pr.props, in[1], in[2])
        IN  pr' = [props |-> r.props, before |-> pr.props,
                   op |-> [name |-> "Set", args |-> <<in>>, errs |-> <<r.err>>]]
    /\ UNCHANGED propertyOthers

PropertySetAll ==
    /\ \E m \in SetAllMaps : \E order \in Orders(DOMAIN m) :
        LET r == SetAll(pr.props, m, order)
        IN  pr' = [props |-> r.props, before |-> pr.props,
                   op |-> [name |-> "SetAll",
                           args |-> [i \in 1..Len(order) |-> <<order[i], m[order[i]]>>],
                           errs |-> r.errs]]
    /\ UNCHANGED propertyOthers

PropertyRemove ==
    /\ \E key \in {<<>>, <<"_">>, <<" ">>} :
        pr' = [props |-> Remove(pr.props, key), before |-> pr.props,
               op |-> [name |-> "Remove", args |-> <<<<key>>>>, errs |-> <<>>]]
    /\ UNCHANGED propertyOthers

PropertyRemoveAll ==
    /\ \E keys \in RemoveLists :
        pr' = [props |-> RemoveAll(pr.props, keys), before |-> pr.props,
               op |-> [name |-> "RemoveAll",
                       args |-> [i \in 1..Len(keys) |-> <<keys[i]>>], errs |-> <<>>]]
    /\ UNCHANGED propertyOthers

\* A mapping that sets of valid keys and short values left.
StoredProps == [k \in StoredKeys |-> ShortValue]

InitProperty ==
    /\ nt = EmptyTree
    /\ cacheFile = NoFile
    /\ pc = "start"
    /\ caller = "none"
    /\ line = NoLine
    /\ result = "none"
    /\ nlines = 0
    /\ folded = 0
    /\ ticks = 0
    /\ restarts = 0
    /\ cps = <<>>
    /\ pre = 0
    /\ failedAt = 0
    /\ atReset = None
    /\ saved = None
    /\ loaded = FALSE
    /\ reqCp = 0
    /\ iter = NoIter
    /\ up = NoUpload
    /\ cl = NoClose
    /\ mk = NoMkDirAll
    /\ pg = NoPurge
    /\ pr \in {NoProperty, [NoProperty EXCEPT !.props = StoredProps]}
    /\ fd = NoFind

NextProperty == PropertySet \/ PropertySetAll \/ PropertyRemove \/ PropertyRemoveAll

SpecProperty == InitProperty /\ [][NextProperty]_vars

\* ---------------------------------------------------------------------------
\* Properties of nodeProperty
\* ---------------------------------------------------------------------------

\* The bad key, the full mapping and the long value of a call Set(key, value)
\* on the mapping props.
BadKey(key) == ~MatchKey(key) \/ Len(key) > NodePropertyKeyMaxSize
NewKeyWhenFull(props, key) == ~Has(props, key) /\ Size(props) = NodePropertyKeysMaxCount
LongValue(value) == Len(value) > NodePropertyValueMaxSize

\* C19: Set(key, value) rejects a key that does not match ^[A-Za-z0-9_]*$ or
\* is longer than 50 characters with ErrNodePropertyInvalidKey, a new key when
\* 10 keys are stored with ErrNodePropertyMaxKeys and a value longer than 500
\* characters with ErrNodePropertyInvalidValue, the first of the three that
\* applies deciding the error; a rejected Set leaves the mapping as it was, an
\* accepted one stores the value, a stored key is overwritten at 10 keys, and
\* after any sequence of Set, SetAll, Remove and RemoveAll the mapping holds at
\* most 10 keys.
C19_PropertySetLimits ==
    /\ Size(pr.props) <= NodePropertyKeysMaxCount
    /\ pr.op.name = "Set" =>
        LET key == pr.op.args[1][1]
            value == pr.op.args[1][2]
            err == pr.op.errs[1]
        IN  /\ BadKey(key) => err = "ErrNodePropertyInvalidKey"
            /\ (~BadKey(key) /\ NewKeyWhenFull(pr.before, key)) => err = "ErrNodePropertyMaxKeys"
            /\ (~BadKey(key) /\ ~NewKeyWhenFull(pr.before, key) /\ LongValue(value))
                    => err = "ErrNodePropertyInvalidValue"
            /\ (BadKey(key) \/ NewKeyWhenFull(pr.before, key) \/ LongValue(value)) => err # "nil"
            /\ err # "nil" => pr.props = pr.before
            /\ (~BadKey(key) /\ Has(pr.before, key) /\ ~LongValue(value)
                    /\ len(value) <= NodePropertyValueMaxSize)
                    => (err = "nil" /\ pr.props = Put(pr.before, key, value))
            /\ err = "nil" => pr.props = Put(pr.before, key, value)
    /\ pr.op.name = "SetAll" =>
        /\ \A k \in DOMAIN pr.props :
            k \in DOMAIN pr.before \/ \E i \in 1..Len(pr.op.args) : pr.op.args[i][1] = k
        /\ \A i \in 1..Len(pr.op.args) :
            (BadKey(pr.op.args[i][1]) \/ LongValue(pr.op.args[i][2])) => pr.op.errs[i] # "nil"
    /\ pr.op.name \in {"Remove", "RemoveAll"} =>
        /\ DOMAIN pr.props = DOMAIN pr.before \ {pr.op.args[i][1] : i \in 1..Len(pr.op.args)}
        /\ \A k \in DOMAIN pr.props : pr.props[k] = pr.before[k]

C19_Witness ==
    /\ pr.op.name = "Set"
    /\ Size(pr.before) = NodePropertyKeysMaxCount
    /\ ~Has(pr.before, pr.op.args[1][1])
    /\ ~BadKey(pr.op.args[1][1])
    /\ pr.op.errs = <<"ErrNodePropertyMaxKeys">>
    /\ pr.props = pr.before

\* ---------------------------------------------------------------------------
\* Tree.FindNode called on the trees MkDirAll makes (src/node/find.go)
\* ---------------------------------------------------------------------------

\* Segments that differ only in the case of their letters, class by class.
CaseClasses == {{"doc", "Doc", "DOC"}, {"pic", "PIC"}, {""}}
CaseNames == UNION CaseClasses

\* The paths FindNode is called with: the empty path and the paths of one
\* and of two segments, and paths that reach the third level.
FindPaths ==
    {<<>>} \cup {<<a>> : a \in CaseNames} \cup {<<a, b>> : a, b \in CaseNames}
        \cup {<<a, b, c>> : a \in {"doc", "DOC"}, b \in {"doc", "Doc"}, c \in {"pic", "PIC"}}

\* The paths that differ from path in the case of letters at most.
CaseVariants(path) ==
    {q \in FindPaths :
        /\ Len(q) = Len(path)
        /\ \A i \in 1..Len(q) : \E class \in CaseClasses : {q[i], path[i]} \subseteq class}

\* FindNode is called with a path and with a case variant of it, the tree
\* being the same for both calls.  The two calls are made once in a
\* behaviour, on any tree the calls of MkDirAll before them have made.
FindNodeCall ==
    /\ fd = NoFind
    /\ \E path \in FindPaths : \E other \in CaseVariants(path) :
        fd' = [calls |-> 1, root |-> nt.Node, path |-> path, other |-> other,
               first |-> FindNode(nt, path), second |-> FindNode(nt, other)]
    /\ UNCHANGED <<nt, processVars, mk, pg, pr>>

NextFind == MkDirAllCall \/ MkDirAllStep \/ MkDirAllDone \/ FindNodeCall

SpecFind == InitMkDirAll /\ [][NextFind]_vars

\* C20: path resolution is case-insensitive: two calls of FindNode on the
\* same tree with paths that differ only in letter case return the same node
\* and nil, or both return ErrNodeNotFound.
C20_FindNodeCaseInsensitive ==
    fd.calls > 0 =>
        /\ fd.first = fd.second
        /\ fd.first.err \in {"nil", "ErrNodeNotFound"}
        /\ fd.first.err = "ErrNodeNotFound" <=> fd.first.node = 0

C20_Witness ==
    /\ fd.calls > 0
    /\ fd.path = <<"DOC", "pic">>
    /\ fd.other = <<"doc", "PIC">>
    /\ fd.first.err = "nil"
    /\ fd.second.err = "nil"
    /\ fd.first.node # 0

\* ---------------------------------------------------------------------------
\* Tree.FindNode called with paths that begin, end or go on with slashes
\* ---------------------------------------------------------------------------

\* The paths FindNode is called with: up to three segments, empty ones
\* among them, and paths with runs of slashes.
SlashPaths ==
    {<<>>} \cup {<<a>> : a \in {"", "Doc", "pic"}}
        \cup {<<a, b>> : a, b \in {"", "Doc", "pic"}}
        \cup {<<a, b, c>> : a, b, c \in {"", "Doc", "pic"}}
        \cup {<<"", "", "Doc", "", "", "pic">>, <<"", "Doc", "", "pic", "", "">>,
              <<"Doc", "pic", "Doc">>, <<"", "", "", "">>}

\* The segments of a path that are not empty, in their order.
Segments(path) == SelectSeq(path, LAMBDA seg : seg # "")

\* FindNode is called with two paths that have the same segments, the tree
\* being the same for both calls, once in a behaviour.
FindNodeSlashes ==
    /\ fd = NoFind
    /\ \E path \in SlashPaths : \E other \in {q \in SlashPaths : Segments(q) = Segments(path)} :
        fd' = [calls |-> 1, root |-> nt.Node, path |-> path, other |-> other,
               first |-> FindNode(nt, path), second |-> FindNode(nt, other)]
    /\ UNCHANGED <<nt, processVars, mk, pg, pr>>

NextSlashes == MkDirAllCall \/ MkDirAllStep \/ MkDirAllDone \/ FindNodeSlashes

SpecSlashes == InitMkDirAll /\ [][NextSlashes]_vars

\* C21: path resolution ignores the slashes a path begins with, ends with
\* and repeats: two paths with the same segments resolve to the same node or
\* both to ErrNodeNotFound, and a path with no segment ("", "/", "//")
\* returns the root.
C21_FindNodeIgnoresSlashes ==
    fd.calls > 0 =>
        /\ fd.first = fd.second
        /\ fd.first.err \in {"nil", "ErrNodeNotFound"}
        /\ Segments(fd.path) = <<>> => fd.first = [err |-> "nil", node |-> fd.root]

C21_Witness ==
    /\ fd.calls > 0
    /\ fd.path = <<"", "", "Doc", "", "", "pic">>
    /\ fd.other = <<"", "Doc", "pic">>
    /\ fd.first.err = "nil"
    /\ fd.first.node # fd.root
    /\ fd.second = fd.first

\* ---------------------------------------------------------------------------
\* Tree.FindById on the index that loadCache builds and Sync changes
\* ---------------------------------------------------------------------------

\* The cache file of an earlier process whose tree had the file b both under
\* the root and under the folder a: gob wrote b once for each path.
SharedNodes ==
    <<RootNode,
      [Id |-> "a", Name |-> "Pic", Kind |-> KindFolder, Status |-> StatusAvailable,
       Parents |-> <<"r">>, IsRoot |-> FALSE],
      [Id |-> "b", Name |-> "Doc", Kind |-> KindFile, Status |-> StatusAvailable,
       Parents |-> <<"r", "a">>, IsRoot |-> FALSE]>>

SharedFile ==
    gobEncode(buildNodeTree([updateNodes(EmptyTree, SharedNodes, 1) EXCEPT !.Checkpoint = 1],
                            IdOrder, 1))

InitIndex ==
    /\ nt = EmptyTree
    /\ cacheFile \in {SeedFile, SharedFile}
    /\ pc = "start"
    /\ caller = "none"
    /\ line = NoLine
    /\ result = "none"
    /\ nlines = 0
    /\ folded = 0
    /\ ticks = 0
    /\ restarts = 0
    /\ cps = <<>>
    /\ pre = 0
    /\ failedAt = 0
    /\ atReset = None
    /\ saved = None
    /\ loaded = FALSE
    /\ reqCp = 0
    /\ iter = NoIter
    /\ up = NoUpload
    /\ cl = NoClose
    /\ mk = NoMkDirAll
    /\ pg = NoPurge
    /\ pr = NoProperty
    /\ fd = NoFind

\* A process that finds a cache file: NewTree loads it, builds the index
\* from the root, and calls Sync.
SpecIndex == InitIndex /\ [][NextFirstSync]_vars

\* The tree is as loadCache left it: the index was built from the root and
\* the first Sync has folded nothing yet.
IndexJustBuilt == loaded /\ caller = "NewTree" /\ pc = "request"

\* C22: FindById(id) returns a node whose id is id for every id of the
\* index and ErrNodeNotFound for every other id; in a tree whose index
\* buildNodeIdMap has just built from the root, every node reachable by path
\* is found by its id, with the fields it has.
C22_FindById ==
    /\ \A id \in DOMAIN nt.nodeIdMap :
          /\ FindById(nt, id) # 0
          /\ nt.heap[FindById(nt, id)].Id = id
    /\ \A id \in ({RootId} \cup NodeIds) \ DOMAIN nt.nodeIdMap : FindById(nt, id) = 0
    /\ IndexJustBuilt =>
          \A a \in Reach(nt, nt.Node) :
              /\ FindById(nt, nt.heap[a].Id) # 0
              /\ Fields(nt.heap[FindById(nt, nt.heap[a].Id)]) = Fields(nt.heap[a])

\* The index was built for the tree where b is reached by two paths: the
\* three ids are found.
C22_Witness ==
    /\ IndexJustBuilt
    /\ Cardinality(Reach(nt, nt.Node)) = 4
    /\ DOMAIN nt.nodeIdMap = {"r", "a", "b"}
    /\ nt.heap[FindById(nt, "b")].Name = "Doc"

(***************************************************************************)
(* Client.Upload(filename, overwrite, ...).  mk.path is path.Dir(filename) *)
(* and the call of MkDirAll for it is the first step; up.name is           *)
(* path.Base(filename).  up.client says which of Tree.Upload and           *)
(* Tree.Overwrite Client.Upload went on with ("returned" when it returned  *)
(* before either), up.before is the tree when MkDirAll had returned.       *)
(***************************************************************************)
\* c.GetNodeTree().MkDirAll(path.Dir(filename))
ClientUploadMkDirAll ==
    /\ mk.call = 0
    /\ up.main = "idle"
    /\ MkDirAllCall

\* n.update(newNode): the fields of newNode are decoded into n, whose map
\* of children stays.
update(t, n, newNode) == [t EXCEPT !.heap[n] = Obj(newNode, @.Nodes)]

\* the errors Patch returns when its request fails
PatchErrors == {"ErrDoingHTTPRequest", "ErrResponse", "ErrJSONDecodingResponseBody"}

\* Client.Upload after MkDirAll returned: its error is returned; otherwise
\* FindNode(filename), and ErrFileExists when the node is found and
\* overwrite is false, Tree.Overwrite of the node when overwrite is true,
\* Tree.Upload under the node of MkDirAll when no node is found.
ClientUploadFindNode ==
    /\ mk.state = "returned"
    /\ up.main = "idle"
    /\ up.client = "none"
    /\ IF mk.result # "nil"
       THEN up' = [up EXCEPT !.client = "returned", !.result = mk.result, !.before = nt]
       ELSE \E name \in {"Doc", "Pic"}, overwrite \in BOOLEAN, size \in 0..MaxChunks :
               LET f == FindNode(nt, mk.path \o <<name>>)
                   start == [NoUpload EXCEPT !.main = "starting", !.producer = "sendCT",
                                             !.consumer = "newRequest", !.size = size,
                                             !.left = size, !.before = nt]
               IN  up' = IF f.err = "nil"
                         THEN IF overwrite
                              THEN [start EXCEPT !.client = "overwrite",
                                                 !.parent = nt.heap[f.node].Id,
                                                 !.name = nt.heap[f.node].Name]
                              ELSE [up EXCEPT !.client = "returned", !.name = name,
                                              !.result = "ErrFileExists", !.before = nt]
                         ELSE [start EXCEPT !.client = "upload", !.parent = mk.node,
                                            !.name = name]
    /\ UNCHANGED <<nt, syncVars>>

\* Tree.Upload returns to Client.Upload.
ClientUploadReturn ==
    /\ up.client = "upload"
    /\ UploadReturn

\* The metadata of Tree.Upload is written; Tree.Overwrite has none, and the
\* producer goes on to the file.
ClientWriteField ==
    \/ /\ up.client # "overwrite"
       /\ ProducerWriteField
    \/ /\ up.client = "overwrite"
       /\ up.producer = "writeMeta"
       /\ up' = [up EXCEPT !.producer = "createFormFile"]
       /\ UNCHANGED <<nt, syncVars>>

\* Tree.Overwrite after Tree.upload returned: an error is returned;
\* otherwise n.update(node) and Patch, whose request can fail and which
\* ends with n.update(newNode).  The server answers with the record of n.
OverwriteReturn ==
    /\ up.client = "overwrite"
    /\ up.main = "returned"
    /\ LET n == nt.nodeIdMap[up.parent]
       IN  IF up.result # "node"
           THEN nt' = nt /\ up' = [up EXCEPT !.main = "done"]
           ELSE /\ nt' = Canon(update(nt, n, Fields(nt.heap[n])))
                /\ \E e \in {"nil"} \cup PatchErrors :
                      up' = [up EXCEPT !.main = "done",
                                       !.result = IF e = "nil" THEN "file" ELSE e]
    /\ UNCHANGED syncVars

NextClientUpload ==
    \/ ClientUploadMkDirAll
    \/ MkDirAllStep
    \/ MkDirAllDone
    \/ ClientUploadFindNode
    \/ MainSelect
    \/ ClientUploadReturn
    \/ OverwriteReturn
    \/ ProducerSendContentType
    \/ ClientWriteField
    \/ ProducerCreateFormFile
    \/ ProducerCopyChunk
    \/ ProducerCopyFails
    \/ ProducerCopyDone
    \/ ProducerCloseWriter
    \/ ProducerClosePipe
    \/ ConsumerNewRequest
    \/ ConsumerDo
    \/ ConsumerDoFails
    \/ ConsumerDoReturns
    \/ ConsumerCheckResponse

\* A process whose tree holds the root and the folder "a" and that calls
\* Client.Upload.
SpecClientUpload == InitUpload /\ [][NextClientUpload]_vars

\* Client.Upload has returned, with the node of Tree.Upload, with the node
\* it overwrote, or with an error.
UploadSucceeded == up.client = "upload" /\ up.main = "done" /\ up.result = "node"

UploadFailed ==
    \/ up.client = "returned"
    \/ up.client \in {"upload", "overwrite"} /\ up.main = "done"
                                             /\ up.result \notin {"node", "file"}

\* the ids of the folders MkDirAll created for the path of the file
CreatedForUpload == {mk.requests[i].id : i \in DOMAIN mk.requests} \ {""}

\* C23: an Upload that succeeds has put the node the server returned into
\* the index and into the children of its parent when it returns:
\* FindNode(parentPath/name) and FindById(id) return that node.  An Upload
\* that returns an error leaves the tree as it was when Tree.Upload or
\* Tree.Overwrite was called; the folders that MkDirAll created for
\* Client.Upload before that call stay in the index and in the children of
\* their parents, nothing else is added and nothing is taken away.
C23_UploadBookkeeping ==
    /\ UploadSucceeded =>
          LET f == FindNode(nt, mk.path \o <<up.name>>)
          IN  /\ f.err = "nil"
              /\ FindById(nt, "b") = f.node
              /\ Fields(nt.heap[f.node]) = UploadedNode(up)
              /\ \E k \in DOMAIN Kids(nt, nt.nodeIdMap[up.parent]) :
                    Kids(nt, nt.nodeIdMap[up.parent])[k] = f.node
              /\ DOMAIN nt.nodeIdMap = DOMAIN up.before.nodeIdMap \cup {"b"}
    /\ UploadFailed =>
          /\ nt = up.before
          /\ DOMAIN nt.nodeIdMap = DOMAIN mk.before.nodeIdMap \cup CreatedForUpload
          /\ \A id \in DOMAIN mk.before.nodeIdMap :
                Fields(nt.heap[nt.nodeIdMap[id]]) =
                    Fields(mk.before.heap[mk.before.nodeIdMap[id]])

\* Client.Upload returned the node of a file it uploaded into a folder that
\* its MkDirAll had created.
C23_Witness ==
    /\ UploadSucceeded
    /\ CreatedForUpload # {}
    /\ up.parent \in CreatedForUpload
    /\ FindById(nt, "b") # 0

\* C23 as stated: an Upload that returns an error leaves the index
\* unchanged.
C23_UploadErrorLeavesIndex ==
    UploadFailed => DOMAIN nt.nodeIdMap = DOMAIN mk.before.nodeIdMap

(***************************************************************************)
(* Client.List(path).  fd records the one call of a behaviour: the path,   *)
(* the tree at the call and what List returned, an error and the map of    *)
(* children (0 for nil).                                                   *)
(***************************************************************************)
\* List without the test rootNode.IsDir().
ListOfAnyNode(t, path) ==
    LET f == FindNode(t, path)
    IN  IF f.err # "nil"
        THEN [err |-> f.err, nodes |-> 0]
        ELSE [err |-> "nil", nodes |-> t.heap[f.node].Nodes]

\* Client.List: the error of FindNode, ErrPathIsNotFolder for a node that is
\* no folder, otherwise rootNode.Nodes.
List(t, path) ==
    LET f == FindNode(t, path)
    IN  IF f.err # "nil"
        THEN [err |-> f.err, nodes |-> 0]
        ELSE IF ~IsDir(t.heap[f.node])
        THEN [err |-> "ErrPathIsNotFolder", nodes |-> 0]
        ELSE [err |-> "nil", nodes |-> t.heap[f.node].Nodes]

\* List is called once in a behaviour, between the steps of MkDirAll.
ListCall ==
    /\ fd = NoFind
    /\ \E path \in MkDirPaths :
          fd' = [calls |-> 1, root |-> nt.Node, path |-> path, tree |-> nt,
                 list |-> List(nt, path)]
    /\ UNCHANGED <<nt, processVars, mk, pg, pr>>

NextList == MkDirAllCall \/ MkDirAllStep \/ MkDirAllDone \/ ListCall

SpecList == InitMkDirAll /\ [][NextList]_vars

\* the nodes of the index of t that have the node at n among their parents
ChildrenOf(t, n) ==
    {t.nodeIdMap[id] : id \in {i \in DOMAIN t.nodeIdMap :
        \E j \in DOMAIN t.heap[t.nodeIdMap[i]].Parents :
            t.heap[t.nodeIdMap[i]].Parents[j] = t.heap[n].Id}}

\* the nodes the map at the address m holds
Entries(t, m) == IF m = 0 THEN {} ELSE {t.maps[m][k] : k \in DOMAIN t.maps[m]}

\* C24: List(path) returns ErrNodeNotFound when the path does not resolve,
\* ErrPathIsNotFolder when it resolves to a node that is no folder, and for
\* a folder the map of its direct children: one entry for every node whose
\* parent the folder is, and no other entry.
C24_ListDirectChildren ==
    fd.calls > 0 =>
        LET t == fd.tree
            f == FindNode(t, fd.path)
        IN  /\ f.err \in {"nil", "ErrNodeNotFound"}
            /\ f.err = "ErrNodeNotFound" =>
                   fd.list = [err |-> "ErrNodeNotFound", nodes |-> 0]
            /\ (f.err = "nil" /\ ~IsDir(t.heap[f.node])) =>
                   fd.list = [err |-> "ErrPathIsNotFolder", nodes |-> 0]
            /\ (f.err = "nil" /\ IsDir(t.heap[f.node])) =>
                   /\ fd.list.err = "nil"
                   /\ Entries(t, fd.list.nodes) = ChildrenOf(t, f.node)
                   /\ fd.list.nodes # 0 =>
                          Cardinality(DOMAIN t.maps[fd.list.nodes]) =
                              Cardinality(ChildrenOf(t, f.node))

\* List returned the children of a folder under the root, and one of them
\* has a child of its own, which is not in the list.
C24_Witness ==
    /\ fd.calls > 0
    /\ fd.path # <<>>
    /\ fd.list.err = "nil"
    /\ \E c \in Entries(fd.tree, fd.list.nodes) :
          \E g \in Entries(fd.tree, fd.tree.heap[c].Nodes) :
              g \notin Entries(fd.tree, fd.list.nodes)

(***************************************************************************)
(* Client.CheckResponse(res).  fd records the call: the status code        *)
(* of the response and the error returned.                                 *)
(***************************************************************************)
StatusBadRequest == 400
StatusUnauthorized == 401
StatusForbidden == 403
StatusConflict == 409
StatusInternalServerError == 500
StatusServiceUnavailable == 503

\* the status codes of the responses CheckResponse is given
StatusCodes == 0..999

\* the switch of CheckResponse
ErrorOfStatus(status) ==
    CASE status = StatusBadRequest -> "ErrResponseBadInput"
      [] status = StatusUnauthorized -> "ErrResponseInvalidToken"
      [] status = StatusForbidden -> "ErrResponseForbidden"
      [] status = StatusConflict -> "ErrResponseDuplicateExists"
      [] status = StatusInternalServerError -> "ErrResponseInternalServerError"
      [] status = StatusServiceUnavailable -> "ErrResponseUnavailable"
      [] OTHER -> "ErrResponseUnknown"

\* CheckResponse that takes the codes up to 300 for a success, as its
\* comment has it.
CheckResponseUpTo300(status) ==
    IF 200 <= status /\ status <= 300 THEN "nil" ELSE ErrorOfStatus(status)

\* Client.CheckResponse: nil for a code from 200 to 299, otherwise the error
\* the switch gives for the code.
CheckResponse(status) ==
    IF 200 <= status /\ status <= 299 THEN "nil" ELSE ErrorOfStatus(status)

CheckResponseCall ==
    /\ fd = NoFind
    /\ \E status \in StatusCodes :
          fd' = [calls |-> 1, status |-> status, err |-> CheckResponse(status)]
    /\ UNCHANGED <<nt, processVars, mk, pg, pr>>

NextCheckResponse == CheckResponseCall

SpecCheckResponse == InitUpload /\ [][NextCheckResponse]_vars

FetchNodes ==
    {RootNode, SeedNodes[2], [SeedNodes[2] EXCEPT !.Status = StatusTrash],
     SeedNodes[3], [SeedNodes[3] EXCEPT !.Status = StatusTrash]}

\* the lists of up to MaxNodes + 1 nodes the pages add up to
FetchLists == UNION {[1..n -> FetchNodes] : n \in 0..(MaxNodes + 1)}

\* fetchFresh is called once in a behaviour.
FetchFreshCall ==
    /\ fd = NoFind
    /\ \E nodes \in FetchLists :
          LET r == fetchFresh(nt, nodes)
          IN  /\ nt' = Canon(r.tree)
              /\ fd' = [calls |-> 1, list |-> nodes, out |-> r.out]
    /\ UNCHANGED <<processVars, mk, pg, pr>>

NextFetchFresh == FetchFreshCall

SpecFetchFresh == InitMkDirAll /\ [][NextFetchFresh]_vars

\* the ids of the available nodes of a list
AvailableIds(nodes) == {nodes[i].Id : i \in {j \in DOMAIN nodes : IsAvailable(nodes[j])}}

\* C26: a fresh fetch completes without fault, and afterwards the index
\* holds exactly the available nodes of the list, every such node is in the
\* children of each of its parents that the index holds, the root is the
\* available folder with the empty name and no parents, and the checkpoint
\* is empty.
C26_FetchFreshBuildsTheTree ==
    fd.calls > 0 =>
        /\ fd.out = "nil"
        /\ DOMAIN nt.nodeIdMap = AvailableIds(fd.list)
        /\ \A id \in DOMAIN nt.nodeIdMap :
              LET n == nt.heap[nt.nodeIdMap[id]]
              IN  \A k \in DOMAIN n.Parents :
                      n.Parents[k] \in DOMAIN nt.nodeIdMap =>
                          LET kids == Kids(nt, nt.nodeIdMap[n.Parents[k]])
                          IN  /\ ToLower(n.Name) \in DOMAIN kids
                              /\ kids[ToLower(n.Name)] = nt.nodeIdMap[id]
        /\ nt.Node # 0
        /\ Fields(nt.heap[nt.Node]) = RootNode
        /\ nt.Checkpoint = 0

(***************************************************************************)
(* The lock of the tree.  A user operation runs on the thread of its       *)
(* caller while the background Sync folds one record.  Each of the two is  *)
(* the sequence of what it does with the mutex of the tree, with the root  *)
(* pointer and with the index; a read or a write takes two steps, so that  *)
(* two of them can overlap.  fd.thread[th] is the sequence of the thread,  *)
(* the step it is at and whether it is in the middle of that step;         *)
(* fd.writer is the thread that holds the mutex for writing, fd.readers    *)
(* the threads that hold it for reading.                                   *)
(***************************************************************************)
Step(op, what) == [op |-> op, what |-> what]

\* Tree.FindById: nt.nodeIdMap[id]
FindByIdSteps == <<Step("read", "index")>>

\* Tree.FindNode, and Client.List which calls it: nt.Node
FindNodeSteps == <<Step("read", "root")>>

\* updateNodes for the record of the root
FoldRootSteps ==
    <<Step("Lock", ""), Step("write", "root"), Step("write", "index"), Step("Unlock", "")>>

\* updateNodes for a record that is not available: removeNodeFromTree of a
\* node with one parent
FoldRemovedSteps ==
    <<Step("RLock", ""), Step("read", "index"), Step("RUnlock", ""),
      Step("Lock", ""), Step("write", "index"), Step("Unlock", "")>>

\* updateNodes for an available record with one parent: the lookup of the
\* id, the store of the record, and for a known id the lookup of the old
\* parent; then the lookup of the parent, and the store of a placeholder
\* when the index does not hold it
FoldSteps(known, parentKnown) ==
    <<Step("read", "index"), Step("Lock", ""), Step("write", "index"), Step("Unlock", "")>>
        \o (IF known THEN <<Step("read", "index")>> ELSE <<>>)
        \o <<Step("read", "index")>>
        \o (IF parentKnown THEN <<>> ELSE <<Step("write", "index")>>)

UserOperations == {FindByIdSteps, FindNodeSteps}

SyncFolds ==
    {FoldRootSteps, FoldRemovedSteps} \cup
    {FoldSteps(known, parentKnown) : known \in BOOLEAN, parentKnown \in BOOLEAN}

Threads == {"user", "sync"}

\* A user operation and the fold of a record start.
LockStart ==
    /\ fd = NoFind
    /\ \E u \in UserOperations, f \in SyncFolds :
          fd' = [calls |-> 1,
                 thread |-> [th \in Threads |->
                                [steps |-> IF th = "user" THEN u ELSE f,
                                 i |-> 1, busy |-> FALSE]],
                 writer |-> "none", readers |-> {}]
    /\ UNCHANGED <<nt, processVars, mk, pg, pr>>

\* the step the thread th is at
Current(th) == fd.thread[th].steps[fd.thread[th].i]

\* The thread th takes a step: Lock waits until no thread holds the mutex,
\* RLock until no thread holds it for writing; a read or a write begins, or
\* ends.
LockStep ==
    /\ fd.calls > 0
    /\ \E th \in Threads :
          /\ fd.thread[th].i <= Len(fd.thread[th].steps)
          /\ LET next == [fd EXCEPT !.thread[th].i = @ + 1, !.thread[th].busy = FALSE]
             IN  CASE Current(th).op = "Lock" ->
                          /\ fd.writer = "none"
                          /\ fd.readers = {}
                          /\ fd' = [next EXCEPT !.writer = th]
                   [] Current(th).op = "Unlock" ->
                          fd' = [next EXCEPT !.writer = "none"]
                   [] Current(th).op = "RLock" ->
                          /\ fd.writer = "none"
                          /\ fd' = [next EXCEPT !.readers = @ \cup {th}]
                   [] Current(th).op = "RUnlock" ->
                          fd' = [next EXCEPT !.readers = @ \ {th}]
                   [] OTHER ->
                          fd' = IF fd.thread[th].busy
                                THEN next
                                ELSE [fd EXCEPT !.thread[th].busy = TRUE]
    /\ UNCHANGED <<nt, processVars, mk, pg, pr>>

NextLocks == LockStart \/ LockStep

SpecLocks == InitUpload /\ [][NextLocks]_vars

\* the thread th is in the middle of a read or a write
Accessing(th) ==
    /\ fd.calls > 0
    /\ fd.thread[th].i <= Len(fd.thread[th].steps)
    /\ fd.thread[th].busy

\* C27: every read of the root pointer or of the index happens while the
\* thread holds the lock of the tree, every write while it holds it for
\* writing, so that no read of the index overlaps a write of it.
C27_AccessUnderLock ==
    /\ \A th \in Threads :
          Accessing(th) =>
              /\ Current(th).op = "read" => (fd.writer = th \/ th \in fd.readers)
              /\ Current(th).op = "write" => fd.writer = th
    /\ ~ /\ Accessing("user")
         /\ Accessing("sync")
         /\ Current("user").what = "index"
         /\ Current("sync") = Step("write", "index")

(***************************************************************************)
(* Properties of the tree that Sync leaves.                                *)
(***************************************************************************)
\* the ids of the index whose node is available and is not reached from the
\* root through the Nodes maps
Unreachable(t) ==
    {id \in DOMAIN t.nodeIdMap :
        /\ IsAvailable(t.heap[t.nodeIdMap[id]])
        /\ \/ t.Node = 0
           \/ t.nodeIdMap[id] \notin Reach(t, t.Node)}

\* C28: after a completed operation, here a Sync that returned nil, every
\* node of the index whose status is AVAILABLE is reachable from the root by
\* following the children maps.
C28_AvailableIsReachable ==
    (pc = "returned" /\ result = "nil") => Unreachable(nt) = {}

\* One iteration of the loop of updateNodes, noted in fd: the record, the
\* tree before it was folded, and the ids whose last record in this Sync was
\* not available.
SyncFoldNoted ==
    /\ pc = "fold"
    /\ line.n < MaxNodes
    /\ folded < MaxDeltas
    /\ \E crNode \in Deltas :
          /\ nt' = Canon(updateNode(nt, crNode))
          /\ fd' = [calls |-> 1, delta |-> crNode, before |-> nt,
                    removed |-> IF fd.calls = 0
                                THEN IF IsAvailable(crNode) THEN {} ELSE {crNode.Id}
                                ELSE IF IsAvailable(crNode)
                                THEN fd.removed \ {crNode.Id}
                                ELSE fd.removed \cup {crNode.Id}]
    /\ line' = [line EXCEPT !.n = @ + 1]
    /\ folded' = folded + 1
    /\ UNCHANGED <<up, cl, mk, pg, pr, cacheFile, pc, caller, result, nlines, ticks, restarts,
                   cps, pre, failedAt, atReset, saved, loaded, reqCp, iter>>

NextDeltas ==
    \/ NewTree
    \/ SyncRequest
    \/ SyncLine
    \/ SyncFoldNoted
    \/ SyncLineDone
    \/ SyncLineFails
    \/ SyncFinish
    \/ SyncEndLine
    \/ NewTreeSyncDone

\* NewTree with its first Sync, the records of the stream noted.
SpecDeltas == Init /\ [][NextDeltas]_vars

\* the ids of the nodes that the children maps of the tree hold
IdsInChildren(t) ==
    UNION {{t.heap[Kids(t, a)[k]].Id : k \in DOMAIN Kids(t, a)} : a \in DOMAIN t.heap}

\* C29: after a successful Sync that delivered a record with status TRASH
\* or PURGED for the id X, the index does not hold X and no children map
\* holds a node with the id X, whatever parents and name the stored record
\* of X had; and no node of the index has the status TRASH or PURGED.
C29_RemovedIsGone ==
    (pc = "returned" /\ result = "nil" /\ fd.calls > 0) =>
        /\ \A id \in fd.removed :
              /\ id \notin DOMAIN nt.nodeIdMap
              /\ id \notin IdsInChildren(nt)
        /\ \A id \in DOMAIN nt.nodeIdMap :
              nt.heap[nt.nodeIdMap[id]].Status # StatusTrash

\* the record just folded is an available record of an id that the index
\* held, for a node that was not the root
UpdateJustFolded ==
    /\ fd.calls > 0
    /\ pc = "fold"
    /\ IsAvailable(fd.delta)
    /\ ~fd.delta.IsRoot
    /\ fd.delta.Id \in DOMAIN fd.before.nodeIdMap
    /\ fd.before.nodeIdMap[fd.delta.Id] # fd.before.Node

\* C30: when Sync folds an updated record for a node of the index that is
\* not the root, the index holds the new record, which has the children the
\* old record had; no parent of the old record holds a node of that id
\* under the old name, unless it is the new record; and every parent of the
\* new record holds the new record under its name.
C30_UpdateReplacesRecord ==
    UpdateJustFolded =>
        LET d == fd.delta
            b == fd.before
            old == b.nodeIdMap[d.Id]
            new == nt.nodeIdMap[d.Id]
        IN  /\ d.Id \in DOMAIN nt.nodeIdMap
            /\ Fields(nt.heap[new]) = d
            /\ DOMAIN Kids(nt, new) = DOMAIN Kids(b, old)
            /\ \A k \in DOMAIN Kids(b, old) :
                  Fields(nt.heap[Kids(nt, new)[k]]) = Fields(b.heap[Kids(b, old)[k]])
            /\ \A i \in DOMAIN b.heap[old].Parents :
                  LET p == b.heap[old].Parents[i]
                      key == ToLower(b.heap[old].Name)
                  IN  (p \in DOMAIN nt.nodeIdMap /\ key \in DOMAIN Kids(nt, nt.nodeIdMap[p])) =>
                          \/ Kids(nt, nt.nodeIdMap[p])[key] = new
                          \/ nt.heap[Kids(nt, nt.nodeIdMap[p])[key]].Id # d.Id
            /\ \A i \in DOMAIN d.Parents :
                  /\ d.Parents[i] \in DOMAIN nt.nodeIdMap
                  /\ ToLower(d.Name) \in DOMAIN Kids(nt, nt.nodeIdMap[d.Parents[i]])
                  /\ Kids(nt, nt.nodeIdMap[d.Parents[i]])[ToLower(d.Name)] = new

\* The folder "a" with the file "b" in it was renamed: the new record of "a"
\* is under the root with its new name and "b" is still in it.
C30_Witness ==
    /\ UpdateJustFolded
    /\ fd.delta.Id = "a"
    /\ fd.delta.Name # fd.before.heap[fd.before.nodeIdMap["a"]].Name
    /\ Kids(fd.before, fd.before.nodeIdMap["a"]) # EmptyMap
    /\ FindNode(nt, <<fd.delta.Name, "Doc">>).err = "nil"

(***************************************************************************)
(* The order in which the records of a Sync arrive.  The record of a child *)
(* and the record of its parent, which the index does not hold, are folded *)
(* in both orders, each on its own copy of the tree: nt is the tree where  *)
(* the child came first, fd.other the tree where the parent came first.    *)
(* Sync then ends with buildNodeTree, which ranges over the index in the   *)
(* same order on both.                                                     *)
(***************************************************************************)
\* A process with the tree t, between two operations.
InitTree(t) ==
    /\ nt = t
    /\ cacheFile = gobEncode(t)
    /\ pc = "ready"
    /\ caller = "none"
    /\ line = NoLine
    /\ result = "none"
    /\ nlines = 0
    /\ folded = 0
    /\ ticks = 0
    /\ restarts = 0
    /\ cps = <<>>
    /\ pre = 0
    /\ failedAt = 0
    /\ atReset = None
    /\ saved = None
    /\ loaded = FALSE
    /\ reqCp = 0
    /\ iter = NoIter
    /\ up = NoUpload
    /\ cl = NoClose
    /\ mk = NoMkDirAll
    /\ pg = NoPurge
    /\ pr = NoProperty
    /\ fd = NoFind

\* the trees an earlier Sync can have left: no node, the root, the root with
\* the file "b", the root with the folder "a"
OrderTrees ==
    {EmptyTree,
     Canon(buildNodeTree(updateNodes(EmptyTree, <<RootNode>>, 1), <<"r">>, 1)),
     Canon(buildNodeTree(updateNodes(EmptyTree, <<RootNode, [SeedNodes[3] EXCEPT !.Parents = <<"r">>]>>, 1),
                         <<"r", "b">>, 1)),
     UploadTree}

InitOrder == \E t \in OrderTrees : InitTree(t)

\* the id is among the parents of the record
HasParent(n, id) == \E i \in DOMAIN n.Parents : n.Parents[i] = id

\* the records of a child and of a parent of it that the index of t does
\* not hold, both available
OrderPairs(t) ==
    {pair \in {d \in Deltas : IsAvailable(d) /\ ~d.IsRoot} \X {d \in Deltas : IsAvailable(d)} :
        /\ HasParent(pair[1], pair[2].Id)
        /\ pair[2].Id \notin DOMAIN t.nodeIdMap}

\* updateNodes folds a record that came before the two.
OrderEarlier ==
    /\ fd = NoFind
    /\ \E crNode \in Deltas :
          /\ nt' = Canon(updateNode(nt, crNode))
          /\ fd' = [calls |-> 0, earlier |-> crNode]
    /\ UNCHANGED <<processVars, mk, pg, pr>>

\* updateNodes folds the two records, the child first on nt, the parent
\* first on the other tree.
OrderFold ==
    /\ fd.calls = 0
    /\ \E pair \in OrderPairs(nt) :
          /\ nt' = Canon(updateNodes(nt, <<pair[1], pair[2]>>, 1))
          /\ fd' = [calls |-> 1, child |-> pair[1], parent |-> pair[2], base |-> nt,
                    other |-> Canon(updateNodes(nt, <<pair[2], pair[1]>>, 1))]
    /\ UNCHANGED <<processVars, mk, pg, pr>>

\* The end of Sync: buildNodeTree on both trees.
OrderBuild ==
    /\ fd.calls = 1
    /\ \E order \in Orders(DOMAIN nt.nodeIdMap) :
          /\ nt' = Canon(buildNodeTree(nt, order, 1))
          /\ fd' = [fd EXCEPT !.calls = 2,
                              !.other = Canon(buildNodeTree(fd.other, order, 1))]
    /\ UNCHANGED <<processVars, mk, pg, pr>>

NextOrder == OrderEarlier \/ OrderFold \/ OrderBuild

SpecOrder == InitOrder /\ [][NextOrder]_vars

\* C31: the fold does not depend on the order in which a child and its
\* parent arrive.  When the record of the child is folded before that of
\* the parent, so that a placeholder is made for the parent, then after the
\* record of the parent is folded and Sync has ended the tree (index, root,
\* children maps) is the one that folding the parent first gives, the child
\* is under the record of the parent and the placeholder is gone.
C31_ArrivalOrder ==
    fd.calls = 2 =>
        /\ nt = fd.other
        /\ DOMAIN nt.nodeIdMap = DOMAIN fd.other.nodeIdMap
        /\ fd.parent.Id \in DOMAIN nt.nodeIdMap
        /\ Fields(nt.heap[nt.nodeIdMap[fd.parent.Id]]) = fd.parent
        /\ ToLower(fd.child.Name) \in DOMAIN Kids(nt, nt.nodeIdMap[fd.parent.Id])
        /\ Kids(nt, nt.nodeIdMap[fd.parent.Id])[ToLower(fd.child.Name)]
               = nt.nodeIdMap[fd.child.Id]
        /\ \A a \in DOMAIN nt.heap :
              Fields(nt.heap[a]) # Fields(Placeholder(fd.parent.Id))

\* The folder "a" arrived before the root on a tree without a root: the
\* root record took the place of the placeholder and "a" is under it.
C31_Witness ==
    /\ fd.calls = 2
    /\ fd.base.Node = 0
    /\ fd.parent = RootNode
    /\ fd.child.Id = "a"
    /\ FindNode(nt, <<fd.child.Name>>).err = "nil"

(***************************************************************************)
(* A node that CreateFolder or Upload stored in the index, and the Sync    *)
(* that delivers a record of the same id afterwards, once or twice.        *)
(***************************************************************************)

\* Tree.Upload(parent, name, ...) when the upload succeeds: the node the
\* server answers with is stored in the index and added to the children of
\* the parent.
Upload(t, n, name) ==
    LET new == Len(t.heap) + 1
        node == [Id |-> "b", Name |-> name, Kind |-> KindFile, Status |-> StatusAvailable,
                 Parents |-> <<t.heap[n].Id>>, IsRoot |-> FALSE]
        t1 == [t EXCEPT !.heap = Append(@, Obj(node, 0)),
                        !.nodeIdMap = Put(@, "b", new)]
    IN  addChild(t1, n, new)

\* the folders of the index: the nodes CreateFolder and Upload are called on
Folders(t) == {t.nodeIdMap[id] : id \in {i \in DOMAIN t.nodeIdMap : IsDir(t.heap[t.nodeIdMap[i]])}}

\* the server keeps the names of the children of a folder distinct,
\* whatever their letter case: the name is free under the parent p for the
\* node with the id
NameFree(t, p, name, id) ==
    IF ToLower(name) \in DOMAIN Kids(t, p)
    THEN t.heap[Kids(t, p)[ToLower(name)]].Id = id
    ELSE TRUE

\* CreateFolder makes the folder "a" under the root, or Upload the file "b"
\* in a folder; the server gives ids the index does not hold, and answers
\* 409 when the name is taken.
IdemInsert ==
    /\ fd.calls = 0
    /\ \/ /\ nt.Node # 0
          /\ "a" \notin DOMAIN nt.nodeIdMap
          /\ \E name \in {x \in NamesOf("a") : NameFree(nt, nt.Node, x, "a")} :
                nt' = Canon(CreateFolder(nt, nt.Node, name, "a"))
          /\ fd' = [calls |-> 0, inserted |-> (IF fd = NoFind THEN {} ELSE fd.inserted) \cup {"a"}]
       \/ /\ "b" \notin DOMAIN nt.nodeIdMap
          /\ \E n \in Folders(nt), name \in NamesOf("a") \cup NamesOf("b") :
                /\ NameFree(nt, n, name, "b")
                /\ nt' = Canon(Upload(nt, n, name))
          /\ fd' = [calls |-> 0, inserted |-> (IF fd = NoFind THEN {} ELSE fd.inserted) \cup {"b"}]
    /\ UNCHANGED <<processVars, mk, pg, pr>>

\* updateNodes folds an available record of an id that was inserted.
IdemFold ==
    /\ fd.calls = 0
    /\ fd # NoFind
    /\ \E crNode \in {d \in Deltas : IsAvailable(d) /\ d.Id \in fd.inserted} :
          /\ \A i \in DOMAIN crNode.Parents :
                crNode.Parents[i] \in DOMAIN nt.nodeIdMap =>
                    NameFree(nt, nt.nodeIdMap[crNode.Parents[i]], crNode.Name, crNode.Id)
          /\ nt' = Canon(updateNode(nt, crNode))
          /\ fd' = [calls |-> 1, inserted |-> fd.inserted, delta |-> crNode, before |-> nt]
    /\ UNCHANGED <<processVars, mk, pg, pr>>

\* updateNodes folds the same record once more.
IdemFoldAgain ==
    /\ fd.calls = 1
    /\ nt' = Canon(updateNode(nt, fd.delta))
    /\ fd' = [fd EXCEPT !.calls = 2]
    /\ UNCHANGED <<processVars, mk, pg, pr>>

\* The end of Sync: buildNodeTree.
IdemBuild ==
    /\ fd.calls \in {1, 2}
    /\ \E order \in Orders(DOMAIN nt.nodeIdMap) :
          nt' = Canon(buildNodeTree(nt, order, 1))
    /\ fd' = [fd EXCEPT !.calls = @ + 2]
    /\ UNCHANGED <<processVars, mk, pg, pr>>

NextIdem == IdemInsert \/ IdemFold \/ IdemFoldAgain \/ IdemBuild

SpecIdem == InitOrder /\ [][NextIdem]_vars

\* the keys under which the children map of the object at p holds a node
\* with the id
KeysOf(t, p, id) == {k \in DOMAIN Kids(t, p) : t.heap[Kids(t, p)[k]].Id = id}

\* C32: when CreateFolder or Upload inserted a node and a later Sync
\* delivers a record with the same id, once or twice, then after the Sync
\* the index holds one node for the id, the record delivered; every parent
\* of the record holds it exactly once in its children; and the node has
\* the children it had.
C32_FoldIdempotent ==
    fd.calls \in {3, 4} =>
        LET d == fd.delta
            b == fd.before
            old == b.nodeIdMap[d.Id]
            new == nt.nodeIdMap[d.Id]
        IN  /\ d.Id \in DOMAIN nt.nodeIdMap
            /\ Fields(nt.heap[new]) = d
            /\ \A i \in DOMAIN d.Parents :
                  /\ d.Parents[i] \in DOMAIN nt.nodeIdMap
                  /\ KeysOf(nt, nt.nodeIdMap[d.Parents[i]], d.Id) = {ToLower(d.Name)}
                  /\ Kids(nt, nt.nodeIdMap[d.Parents[i]])[ToLower(d.Name)] = new
            /\ DOMAIN Kids(nt, new) = DOMAIN Kids(b, old)
            /\ \A k \in DOMAIN Kids(b, old) :
                  Fields(nt.heap[Kids(nt, new)[k]]) = Fields(b.heap[Kids(b, old)[k]])

\* CreateFolder made the folder "a", Upload put the file "b" in it, and the
\* Sync delivered the record of "a" twice: "b" is still found in "a".
C32_Witness ==
    /\ fd.calls = 4
    /\ fd.inserted = {"a", "b"}
    /\ fd.delta.Id = "a"
    /\ Kids(fd.before, fd.before.nodeIdMap["a"]) # EmptyMap
    /\ FindNode(nt, <<fd.delta.Name, "Doc">>).err = "nil"

(***************************************************************************)
(* Tree.RemoveNode on a node of the index.                                 *)
(***************************************************************************)

\* the answers to PUT /trash/{id}: the request cannot be made or sent, the
\* status is an error of CheckResponse, or the node is in the trash
RemoveOutcomes ==
    {"ErrCreatingHTTPRequest", "ErrDoingHTTPRequest", "nil"} \cup
    {ErrorOfStatus(status) : status \in {StatusBadRequest, StatusForbidden, StatusServiceUnavailable}}

\* RemoveNode that takes the node out of the tree before it looks at the
\* answer.
RemoveNodeWhateverTheAnswer(t, n, outcome) ==
    [err |-> outcome, tree |-> removeNodeFromTree(t, Fields(t.heap[n]))]

\* Tree.RemoveNode(n): every error is returned before removeNodeFromTree(n).
RemoveNode(t, n, outcome) ==
    IF outcome # "nil"
    THEN [err |-> outcome, tree |-> t]
    ELSE [err |-> "nil", tree |-> removeNodeFromTree(t, Fields(t.heap[n]))]

\* RemoveNode is called on a node of the index; the server does not put the
\* root in the trash.
RemoveNodeCall ==
    /\ fd # NoFind
    /\ fd.calls \in {0, 1, 3}
    /\ \E id \in DOMAIN nt.nodeIdMap, outcome \in RemoveOutcomes :
          /\ nt.heap[nt.nodeIdMap[id]].IsRoot => outcome # "nil"
          /\ nt' = Canon(RemoveNode(nt, nt.nodeIdMap[id], outcome).tree)
          /\ fd' = [calls |-> 5, id |-> id, node |-> nt.nodeIdMap[id], before |-> nt,
                    err |-> RemoveNode(nt, nt.nodeIdMap[id], outcome).err]
    /\ UNCHANGED <<processVars, mk, pg, pr>>

NextRemove == IdemInsert \/ IdemFold \/ IdemBuild \/ RemoveNodeCall

SpecRemove == InitOrder /\ [][NextRemove]_vars

\* the paths FindNode is called with: one or two names
RemovePaths == {q \in PathsOver({"Doc", "Pic"}, 2) : q # <<>>}

\* C33: when the request of RemoveNode succeeds, no parent of the node that
\* the index holds has the node among its children and the index does not
\* hold its id, so that FindById of the id and FindNode of every path the
\* node had fail with ErrNodeNotFound; when the request fails or the
\* status is an error, RemoveNode returns the error and the index and the
\* children maps are as they were.
C33_RemoveNode ==
    fd.calls = 5 =>
        IF fd.err = "nil"
        THEN /\ fd.id \notin DOMAIN nt.nodeIdMap
             /\ FindById(nt, fd.id) = 0
             /\ \A i \in DOMAIN fd.before.heap[fd.node].Parents :
                   LET p == fd.before.heap[fd.node].Parents[i]
                   IN  p \in DOMAIN nt.nodeIdMap =>
                           KeysOf(nt, nt.nodeIdMap[p], fd.id) = {}
             /\ \A q \in RemovePaths :
                   FindNode(fd.before, q) = [err |-> "nil", node |-> fd.node] =>
                       FindNode(nt, q).err = "ErrNodeNotFound"
        ELSE /\ fd.err \in RemoveOutcomes
             /\ nt = fd.before

\* The file "b" was in the folder "a" and under the root; RemoveNode took it
\* out of both.
C33_Witness ==
    /\ fd.calls = 5
    /\ fd.err = "nil"
    /\ fd.id = "b"
    /\ Len(fd.before.heap[fd.node].Parents) = 2
    /\ \E q \in RemovePaths : Len(q) = 2 /\ FindNode(fd.before, q).node = fd.node
    /\ \E q \in RemovePaths : Len(q) = 1 /\ FindNode(fd.before, q).node = fd.node

(***************************************************************************)
(* The two saves of the cache file: the one at the end of a Sync of the    *)
(* loop and the one of Close.  saveCache calls os.Create, which opens the  *)
(* file for writing and truncates it, then takes the lock of the tree and  *)
(* encodes the tree; gob writes the descriptions of the types and then the *)
(* value, each with a Write at the offset of the file handle.  fd.file is  *)
(* what the file holds, one element per Write (Hole where nothing was written), fd.off the   *)
(* offset of the handle of each save, fd.lock the holder of the lock; the  *)
(* loop is in "select" between its Syncs and Close "open" before its call. *)
(***************************************************************************)
GobTypes == [kind |-> "types"]

\* what a file holds where nothing was written
Hole == [kind |-> "hole"]

Savers == {"sync", "close"}

NoSaves ==
    [calls |-> 0, sync |-> "select", close |-> "open", lock |-> "none", syncDone |-> 0,
     file |-> <<GobTypes, cacheFile>>, off |-> [w \in Savers |-> 0],
     err |-> [w \in Savers |-> "none"], ticks |-> 0]

Saves == IF fd = NoFind THEN NoSaves ELSE fd

\* what a decoder finds in the file
Decodable(file) ==
    IF Len(file) = 2 /\ file[1] = GobTypes /\ file[2].kind = "tree" THEN file[2] ELSE BadFile

\* f.Write at the offset off: the file grows, with a hole when the offset is
\* beyond its end
WriteAt(file, off, x) ==
    [i \in 1..(IF off + 1 > Len(file) THEN off + 1 ELSE Len(file)) |->
        IF i = off + 1 THEN x ELSE IF i \in DOMAIN file THEN file[i] ELSE Hole]

\* The loop takes a tick: Sync folds a record of the stream and calls
\* buildNodeTree; its saveCache comes next.
SavesTick ==
    /\ Saves.sync = "select"
    /\ Saves.ticks < MaxTicks
    /\ \E crNode \in Deltas :
          \E order \in Orders(DOMAIN updateNode(nt, crNode).nodeIdMap) :
             nt' = Canon(buildNodeTree(updateNode(nt, crNode), order, 1))
    /\ fd' = [Saves EXCEPT !.sync = "save", !.ticks = @ + 1]
    /\ UNCHANGED <<processVars, mk, pg, pr>>

\* Tree.Close: nt.syncDone <- struct{}{}; the channel has room for one
\* value, so Close goes on to its saveCache whatever the loop is doing.
SavesCloseSignal ==
    /\ Saves.close = "open"
    /\ fd' = [Saves EXCEPT !.close = "save", !.syncDone = 1]
    /\ UNCHANGED <<nt, processVars, mk, pg, pr>>

\* The loop takes the value of syncDone and returns.
SavesLoopStop ==
    /\ Saves.sync = "select"
    /\ Saves.syncDone = 1
    /\ fd' = [Saves EXCEPT !.sync = "stopped", !.syncDone = 0]
    /\ UNCHANGED <<nt, processVars, mk, pg, pr>>

\* saveCache: os.Create(nt.cacheFile) fails with ErrCreateFile, or opens
\* the file and truncates it.
SaveCreate(w) ==
    /\ Saves[w] = "save"
    /\ \/ /\ fd' = [Saves EXCEPT ![w] = "returned", !.err[w] = "ErrCreateFile"]
          /\ UNCHANGED cacheFile
       \/ /\ fd' = [Saves EXCEPT ![w] = "created", !.file = <<>>, !.off[w] = 0]
          /\ cacheFile' = BadFile
    /\ UNCHANGED <<nt, pc, caller, line, result, nlines, folded, ticks, restarts, cps, pre,
                   failedAt, atReset, saved, loaded, reqCp, iter, up, cl, mk, pg, pr>>

\* saveCache: nt.Lock()
SaveLock(w) ==
    /\ Saves[w] = "created"
    /\ Saves.lock = "none"
    /\ fd' = [Saves EXCEPT ![w] = "locked", !.lock = w]
    /\ UNCHANGED <<nt, processVars, mk, pg, pr>>

\* gob.NewEncoder(f).Encode(nt): one Write of the encoder, the types first
\* and then the value.
SaveEncode(w) ==
    /\ Saves[w] = "locked"
    /\ LET x == IF Saves.off[w] = 0 THEN GobTypes ELSE gobEncode(nt)
           file == WriteAt(Saves.file, Saves.off[w], x)
       IN  /\ fd' = [Saves EXCEPT !.file = file, !.off[w] = @ + 1,
                                  ![w] = IF Saves.off[w] = 0 THEN "locked" ELSE "written"]
           /\ cacheFile' = Decodable(file)
    /\ UNCHANGED <<nt, pc, caller, line, result, nlines, folded, ticks, restarts, cps, pre,
                   failedAt, atReset, saved, loaded, reqCp, iter, up, cl, mk, pg, pr>>

\* saveCache returns nil: the deferred nt.Unlock() runs.  The file is not
\* closed.  Sync then returns to the loop, Close to its caller.
SaveReturn(w) ==
    /\ Saves[w] = "written"
    /\ fd' = [Saves EXCEPT ![w] = "returned", !.lock = "none", !.err[w] = "nil",
                           !.calls = @ + 1]
    /\ UNCHANGED <<nt, processVars, mk, pg, pr>>

\* Sync returned to the loop, which selects again.
SavesLoopSelects ==
    /\ Saves.sync = "returned"
    /\ fd' = [Saves EXCEPT !.sync = "select"]
    /\ UNCHANGED <<nt, processVars, mk, pg, pr>>

NextSaves ==
    \/ SavesTick
    \/ SavesCloseSignal
    \/ SavesLoopStop
    \/ SavesLoopSelects
    \/ \E w \in Savers : SaveCreate(w)
    \/ \E w \in Savers : SaveLock(w)
    \/ \E w \in Savers : SaveEncode(w)
    \/ \E w \in Savers : SaveReturn(w)

SpecSaves == InitOrder /\ [][NextSaves]_vars

\* the save has the file open for writing: from os.Create to its return
HasFileOpen(w) == Saves[w] \in {"created", "locked", "written"}

\* C34: the save of Close and the save at the end of a Sync of the loop
\* never have the cache file open for writing at the same time; and when
\* both have returned nil the file holds one complete encoding of the
\* tree.
C34_OneSaveAtATime ==
    /\ ~(HasFileOpen("sync") /\ HasFileOpen("close"))
    /\ (Saves.err["sync"] = "nil" /\ Saves.err["close"] = "nil"
           /\ Saves.sync \in {"select", "stopped"} /\ Saves.close = "returned") =>
           Saves.file = <<GobTypes, gobEncode(nt)>>

(***************************************************************************)
(* Client.Do and Client.RefreshToken on the headers of the config.  The    *)
(* access tokens are numbers: 0 is the token the config starts with, the   *)
(* k-th call of RefreshToken is answered with the token k.  fd.readers and *)
(* fd.writer are c.config.mutex, fd.header is the value of                 *)
(* Headers["x-amz-access-token"], fd.done the token of the last call of    *)
(* RefreshToken that returned nil, fd.at where each thread is, fd.sent the *)
(* requests handed to httpClient.Do.                                       *)
(***************************************************************************)
Requesters == {"q1", "q2"}

DoThreads == Requesters \cup {"refresh"}

NoHeaders ==
    [calls |-> 0, readers |-> 0, writer |-> FALSE, header |-> 0, done |-> 0,
     at |-> [t \in DoThreads |-> IF t = "refresh" THEN "select" ELSE "idle"],
     began |-> [t \in DoThreads |-> 0], snap |-> [t \in DoThreads |-> 0],
     sent |-> {}, err |-> "none", before |-> 0]

Hd == IF fd = NoFind THEN NoHeaders ELSE fd

\* the errors of RefreshToken after its request was made
RefreshErrors ==
    {"ErrDoingHTTPRequest", ErrorOfStatus(StatusBadRequest), ErrorOfStatus(StatusUnauthorized),
     "ErrJSONDecodingResponseBody", "Failed to refresh access token"}

\* A caller hands a request to Client.Do.
DoCall ==
    /\ \E t \in Requesters :
          /\ Hd.at[t] = "idle"
          /\ fd' = [Hd EXCEPT !.at[t] = "do"]
    /\ UNCHANGED <<nt, processVars, mk, pg, pr>>

\* Do: c.config.mutex.RLock(), which waits while the lock is held for
\* writing.
DoRLock ==
    /\ \E t \in DoThreads :
          /\ Hd.at[t] = "do"
          /\ ~Hd.writer
          /\ fd' = [Hd EXCEPT !.at[t] = "copy", !.readers = @ + 1, !.began[t] = Hd.done]
    /\ UNCHANGED <<nt, processVars, mk, pg, pr>>

\* Do: the loop over c.config.Headers sets the headers of the request.
DoCopy ==
    /\ \E t \in DoThreads :
          /\ Hd.at[t] = "copy"
          /\ fd' = [Hd EXCEPT !.at[t] = "copied", !.snap[t] = Hd.header]
    /\ UNCHANGED <<nt, processVars, mk, pg, pr>>

\* Do: c.config.mutex.RUnlock()
DoRUnlock ==
    /\ \E t \in DoThreads :
          /\ Hd.at[t] = "copied"
          /\ fd' = [Hd EXCEPT !.at[t] = "dispatch", !.readers = @ - 1]
    /\ UNCHANGED <<nt, processVars, mk, pg, pr>>

\* Do: return c.httpClient.Do(r).  The request goes out with the headers
\* it was given.
DoDispatch ==
    /\ \E t \in DoThreads :
          /\ Hd.at[t] = "dispatch"
          /\ fd' = [Hd EXCEPT !.at[t] = IF t = "refresh" THEN "answer" ELSE "idle",
                              !.sent = @ \cup {[who |-> t, token |-> Hd.snap[t],
                                                began |-> Hd.began[t], done |-> Hd.done]}]
    /\ UNCHANGED <<nt, processVars, mk, pg, pr>>

\* The loop takes a tick and calls RefreshToken, which reads the config
\* under the read lock and builds its request.
RefreshTokenCall ==
    /\ Hd.at["refresh"] = "select"
    /\ Hd.calls < MaxTicks + 1
    /\ ~Hd.writer
    /\ fd' = [Hd EXCEPT !.at["refresh"] = "do", !.calls = @ + 1, !.before = Hd.header,
                        !.err = "none"]
    /\ UNCHANGED <<nt, processVars, mk, pg, pr>>

\* RefreshToken returns the error of its request, of CheckResponse, of the
\* decoder or of the answer; or the answer holds a token.
RefreshTokenAnswer ==
    /\ Hd.at["refresh"] = "answer"
    /\ \/ \E e \in RefreshErrors : fd' = [Hd EXCEPT !.at["refresh"] = "select", !.err = e]
       \/ fd' = [Hd EXCEPT !.at["refresh"] = "lock"]
    /\ UNCHANGED <<nt, processVars, mk, pg, pr>>

\* c.config.mutex.Lock() that does not wait for the readers.
RefreshTokenLockNotWaiting ==
    /\ Hd.at["refresh"] = "lock"
    /\ fd' = [Hd EXCEPT !.at["refresh"] = "write", !.writer = TRUE]
    /\ UNCHANGED <<nt, processVars, mk, pg, pr>>

\* RefreshToken: c.config.mutex.Lock(), which waits until no reader and no
\* writer holds the lock.
RefreshTokenLock ==
    /\ Hd.at["refresh"] = "lock"
    /\ Hd.readers = 0
    /\ ~Hd.writer
    /\ fd' = [Hd EXCEPT !.at["refresh"] = "write", !.writer = TRUE]
    /\ UNCHANGED <<nt, processVars, mk, pg, pr>>

\* RefreshToken: c.config.Headers["x-amz-access-token"] = response.AccessToken
RefreshTokenWrite ==
    /\ Hd.at["refresh"] = "write"
    /\ fd' = [Hd EXCEPT !.at["refresh"] = "unlock", !.header = Hd.calls]
    /\ UNCHANGED <<nt, processVars, mk, pg, pr>>

\* RefreshToken: c.config.mutex.Unlock(); return nil
RefreshTokenUnlock ==
    /\ Hd.at["refresh"] = "unlock"
    /\ fd' = [Hd EXCEPT !.at["refresh"] = "select", !.writer = FALSE, !.done = Hd.header,
                        !.err = "nil"]
    /\ UNCHANGED <<nt, processVars, mk, pg, pr>>

NextHeaders ==
    \/ DoCall
    \/ DoRLock
    \/ DoCopy
    \/ DoRUnlock
    \/ DoDispatch
    \/ RefreshTokenCall
    \/ RefreshTokenAnswer
    \/ RefreshTokenLock
    \/ RefreshTokenWrite
    \/ RefreshTokenUnlock

SpecHeaders == InitUpload /\ [][NextHeaders]_vars

\* no Do reads the headers while RefreshToken writes them, and a call of
\* RefreshToken that returned an error left the header as it was
ReadsAndWritesApart ==
    /\ Hd.at["refresh"] = "write" => \A t \in DoThreads : Hd.at[t] # "copy"
    /\ (Hd.at["refresh"] = "select" /\ Hd.err \notin {"none", "nil"}) => Hd.header = Hd.before

\* C35: Do never reads the headers while RefreshToken writes them; every
\* request that Do was called with after a call of RefreshToken had
\* returned nil carries the token of that call or a later one; and a call
\* of RefreshToken that fails leaves the header as it was.
C35_HeadersUnderLock ==
    /\ ReadsAndWritesApart
    /\ \A r \in Hd.sent : r.token >= r.began

\* The same with every request that is handed to httpClient.Do after a
\* call of RefreshToken had returned nil: Do took the headers before.
C35_DispatchedCarryTheNewToken ==
    /\ ReadsAndWritesApart
    /\ \A r \in Hd.sent : r.token >= r.done

\* A request of a caller went out with the token 1 after the first call of
\* RefreshToken had stored it, and the second call failed.
C35_Witness ==
    /\ \E r \in Hd.sent : r.who \in Requesters /\ r.began = 1 /\ r.token = 1
    /\ Hd.calls = 2
    /\ Hd.err \in RefreshErrors
    /\ Hd.header = 1

(***************************************************************************)
(* The three background loops and the errors of their operations.  Each    *)
(* loop selects on its done channel and on the channel of its ticker,      *)
(* which holds one tick at most.  For each loop fd.at says where it is,    *)
(* fd.tick and fd.done what the two channels hold, fd.last what the last   *)
(* call of its operation returned, fd.timer whether its ticker runs,       *)
(* fd.received whether it took the value of its done channel, fd.again     *)
(* whether it called its operation after a call that failed.  fd.close is  *)
(* the number of done channels Client.Close has sent on.                   *)
(***************************************************************************)
Loops == <<"purgeTrash", "refreshToken", "sync">>

LoopNames == {Loops[i] : i \in DOMAIN Loops}

NoLoops ==
    [at |-> [l \in LoopNames |-> "select"], tick |-> [l \in LoopNames |-> 0],
     done |-> [l \in LoopNames |-> 0], last |-> [l \in LoopNames |-> "none"],
     timer |-> [l \in LoopNames |-> TRUE], received |-> [l \in LoopNames |-> FALSE],
     again |-> [l \in LoopNames |-> FALSE], close |-> 0]

Lp == IF fd = NoFind THEN NoLoops ELSE fd

\* The ticker of the loop sends a tick; it drops the tick when the channel
\* holds one.
TickerFires(l) ==
    /\ Lp.timer[l]
    /\ Lp.tick[l] = 0
    /\ fd' = [Lp EXCEPT !.tick[l] = 1]
    /\ UNCHANGED <<nt, processVars, mk, pg, pr>>

\* case <-ticker.C: the loop calls its operation.
LoopTakesTick(l) ==
    /\ Lp.at[l] = "select"
    /\ Lp.tick[l] = 1
    /\ fd' = [Lp EXCEPT !.at[l] = "working", !.tick[l] = 0,
                        !.again[l] = @ \/ Lp.last[l] = "error"]
    /\ UNCHANGED <<nt, processVars, mk, pg, pr>>

\* A loop that returns when its operation returned an error.
LoopOperationReturnsAndStops(l) ==
    /\ Lp.at[l] = "working"
    /\ \E e \in {"nil", "error"} :
          fd' = [Lp EXCEPT !.at[l] = IF e = "nil" THEN "select" ELSE "stopped", !.last[l] = e]
    /\ UNCHANGED <<nt, processVars, mk, pg, pr>>

\* Sync, PurgeTrash or RefreshToken returned: the error is logged and the
\* loop selects again.
LoopOperationReturns(l) ==
    /\ Lp.at[l] = "working"
    /\ \E e \in {"nil", "error"} :
          fd' = [Lp EXCEPT !.at[l] = "select", !.last[l] = e]
    /\ UNCHANGED <<nt, processVars, mk, pg, pr>>

\* case <-done: ticker.Stop(); return
LoopTakesDone(l) ==
    /\ Lp.at[l] = "select"
    /\ Lp.done[l] = 1
    /\ fd' = [Lp EXCEPT !.at[l] = "stopped", !.done[l] = 0, !.timer[l] = FALSE,
                        !.received[l] = TRUE]
    /\ UNCHANGED <<nt, processVars, mk, pg, pr>>

\* Client.Close sends on purgeTrashDone, on refreshTokenDone and, in
\* Tree.Close, on syncDone; each channel has room for one value.
CloseSendsDone ==
    /\ Lp.close < Len(Loops)
    /\ fd' = [Lp EXCEPT !.close = @ + 1, !.done[Loops[Lp.close + 1]] = 1]
    /\ UNCHANGED <<nt, processVars, mk, pg, pr>>

NextLoops ==
    \/ \E l \in LoopNames : TickerFires(l)
    \/ \E l \in LoopNames : LoopTakesTick(l)
    \/ \E l \in LoopNames : LoopOperationReturns(l)
    \/ \E l \in LoopNames : LoopTakesDone(l)
    \/ CloseSendsDone

\* A loop that can take a tick or the value of its done channel takes one
\* of them, and its operation returns.
SpecLoops ==
    /\ InitUpload
    /\ [][NextLoops]_vars
    /\ \A l \in LoopNames :
          /\ WF_vars(LoopTakesTick(l) \/ LoopTakesDone(l))
          /\ WF_vars(LoopOperationReturns(l))

\* C36: a loop whose operation returned an error goes on: when it is in
\* its select and a tick is there, it calls the operation again or takes
\* the value of its done channel; and a loop has returned only when it took
\* that value, and then its ticker is stopped.
C36_LoopsSurviveErrors ==
    /\ \A l \in LoopNames :
          (Lp.last[l] = "error" /\ Lp.at[l] = "select" /\ Lp.tick[l] = 1)
              ~> (Lp.at[l] = "working" \/ Lp.received[l])
    /\ [](\A l \in LoopNames :
             /\ Lp.at[l] = "stopped" <=> Lp.received[l]
             /\ Lp.received[l] => ~Lp.timer[l])

\* Sync failed in the loop, the loop called Sync again on the next tick, and
\* it returned when Close had sent on syncDone.
C36_Witness ==
    /\ Lp.again["sync"]
    /\ Lp.last["sync"] = "error"
    /\ Lp.received["sync"]
    /\ Lp.at["sync"] = "stopped"

(***************************************************************************)
(* A Sync whose stream holds a record of the root.  fd.stream are the      *)
(* records folded so far, fd.before is the tree before the Sync.           *)
(***************************************************************************)

\* the records of the root: the one the tree was built with, and one that
\* differs from it in a field
RootRecords == {RootNode, [RootNode EXCEPT !.Name = "Pic"]}

\* the trees the Sync starts from: those of OrderTrees, and the root with
\* the folder "a" and the file "b" in it
RootTrees == (OrderTrees \ {EmptyTree}) \cup {SeedTree}

InitRoot == \E t \in RootTrees : InitTree(t)

\* the server keeps the names of the children of a folder distinct: no
\* other node of the index has the lowercased name of the record and a
\* parent of it
NameFreeInIndex(t, d) ==
    \A id \in DOMAIN t.nodeIdMap \ {d.Id} :
        LET o == t.heap[t.nodeIdMap[id]]
        IN  ToLower(o.Name) = ToLower(d.Name) =>
                \A i \in DOMAIN o.Parents : ~HasParent(d, o.Parents[i])

\* updateNodes folds a record of the stream: a record of the root, or a
\* record of another node.
RootSyncFold ==
    /\ fd = NoFind \/ fd.calls = 1
    /\ Len(IF fd = NoFind THEN <<>> ELSE fd.stream) < MaxDeltas
    /\ \E crNode \in RootRecords \cup {d \in Deltas : ~d.IsRoot} :
          /\ (IsAvailable(crNode) /\ ~crNode.IsRoot) => NameFreeInIndex(nt, crNode)
          /\ nt' = Canon(updateNode(nt, crNode))
          /\ fd' = [calls |-> 1,
                    stream |-> Append(IF fd = NoFind THEN <<>> ELSE fd.stream, crNode),
                    before |-> IF fd = NoFind THEN nt ELSE fd.before]
    /\ UNCHANGED <<processVars, mk, pg, pr>>

\* Sync that returns nil without its call of buildNodeTree.
RootSyncEndWithoutBuild ==
    /\ fd.calls = 1
    /\ fd' = [fd EXCEPT !.calls = 2]
    /\ UNCHANGED <<nt, processVars, mk, pg, pr>>

\* The stream ended: buildNodeTree, and Sync returns nil.
RootSyncEnd ==
    /\ fd.calls = 1
    /\ \E order \in Orders(DOMAIN nt.nodeIdMap) :
          nt' = Canon(buildNodeTree(nt, order, 1))
    /\ fd' = [fd EXCEPT !.calls = 2]
    /\ UNCHANGED <<processVars, mk, pg, pr>>

NextRoot == RootSyncFold \/ RootSyncEnd

SpecRoot == InitRoot /\ [][NextRoot]_vars

\* the ids of the stream, and the last record of the root in it
StreamIds == {fd.stream[i].Id : i \in DOMAIN fd.stream}

LastRootRecord ==
    fd.stream[CHOOSE i \in DOMAIN fd.stream :
                 /\ fd.stream[i].IsRoot
                 /\ \A k \in DOMAIN fd.stream : fd.stream[k].IsRoot => k <= i]

\* the ids of the nodes on the path q of the tree t, the root left out
IdsOnPath(t, q) ==
    {t.heap[descend(t, t.Node, LowerParts(SubSeq(q, 1, k)), 1)].Id : k \in 1..Len(q)}

\* the Sync has ended and its stream held a record of the root
RootSynced == fd.calls = 2 /\ RootId \in StreamIds

\* the root and the entry of the index for its id are the last record of
\* the root in the stream
RootIsTheNewRecord ==
    /\ nt.Node # 0
    /\ Fields(nt.heap[nt.Node]) = LastRootRecord
    /\ RootId \in DOMAIN nt.nodeIdMap
    /\ nt.nodeIdMap[RootId] = nt.Node

\* the node that the path q led to before the Sync is found by q after it
StillResolvable(q) ==
    /\ FindNode(nt, q).err = "nil"
    /\ Fields(nt.heap[FindNode(nt, q).node]) = Fields(fd.before.heap[FindNode(fd.before, q).node])

\* C37: after a successful Sync whose stream holds a record of the root,
\* the root of the tree and the entry of the index for the root id are the
\* new record, and every node that a path led to before the Sync is found
\* by the same path when the stream holds no record of the node and none
\* of a folder on that path.
C37_RootReplaced ==
    RootSynced =>
        /\ RootIsTheNewRecord
        /\ \A q \in RemovePaths :
              (/\ FindNode(fd.before, q).err = "nil"
               /\ IdsOnPath(fd.before, q) \cap StreamIds = {}) => StillResolvable(q)

\* The same for every node of which the stream holds no record, whatever
\* records it holds of the folders on the path.
C37_UnchangedNodesKeepTheirPath ==
    RootSynced =>
        /\ RootIsTheNewRecord
        /\ \A q \in RemovePaths :
              (/\ FindNode(fd.before, q).err = "nil"
               /\ fd.before.heap[FindNode(fd.before, q).node].Id \notin StreamIds)
                  => StillResolvable(q)

\* The stream held a new record of the root and nothing of the folder "a"
\* and the file "b" in it: both are found where they were, under the new
\* root.
C37_Witness ==
    /\ RootSynced
    /\ StreamIds = {RootId}
    /\ LastRootRecord # RootNode
    /\ FindNode(fd.before, <<"Doc", "Doc">>).err = "nil"
    /\ StillResolvable(<<"Doc", "Doc">>)
    /\ Fields(nt.heap[nt.Node]) # Fields(fd.before.heap[fd.before.Node])

(***************************************************************************)
(* Node.Count on a folder while Sync adds and removes children.  Each node *)
(* has a sync.RWMutex: fd.readers counts the read locks held on it,        *)
(* fd.writer says that the write lock is held, fd.pending that a Lock()    *)
(* waits for the readers to leave; RLock() waits while the write lock is   *)
(* held or a Lock() is pending.  fd.stack are the calls of Count that have *)
(* not returned, the innermost last; fd.w is the thread that writes.       *)
(* Node.Size takes and releases the locks as Node.Count does.              *)
(***************************************************************************)
NoRollup ==
    [stack |-> <<>>, total |-> 0, result |-> "none", writes |-> 0,
     readers |-> [a \in DOMAIN nt.heap |-> 0],
     writer |-> [a \in DOMAIN nt.heap |-> FALSE],
     pending |-> [a \in DOMAIN nt.heap |-> FALSE],
     w |-> [at |-> "idle", node |-> 0, op |-> "none", child |-> 0]]

Ru == IF fd = NoFind THEN NoRollup ELSE fd

\* the innermost call of Count
Top == Ru.stack[Len(Ru.stack)]

\* the stack with the innermost call at another step
TopAt(step, todo) ==
    [Ru.stack EXCEPT ![Len(Ru.stack)] = [node |-> Top.node, at |-> step, todo |-> todo]]

\* n.mutex.RLock() can return
CanRLock(a) == ~Ru.writer[a] /\ ~Ru.pending[a]

\* Count is called on a folder of the index.
CountCall ==
    /\ Ru.stack = <<>>
    /\ Ru.result = "none"
    /\ \E n \in Folders(nt) :
          fd' = [Ru EXCEPT !.stack = <<[node |-> n, at |-> "RLock", todo |-> {}]>>]
    /\ UNCHANGED <<nt, processVars, mk, pg, pr>>

\* Count: n.RLock()
CountRLock ==
    /\ Ru.stack # <<>>
    /\ Top.at = "RLock"
    /\ CanRLock(Top.node)
    /\ fd' = [Ru EXCEPT !.stack = TopAt("IsDir", {}), !.readers[Top.node] = @ + 1]
    /\ UNCHANGED <<nt, processVars, mk, pg, pr>>

\* Count: n.IsDir(), which takes the read lock of n again: n.RLock()
IsDirRLock ==
    /\ Ru.stack # <<>>
    /\ Top.at = "IsDir"
    /\ CanRLock(Top.node)
    /\ fd' = [Ru EXCEPT !.stack = TopAt("IsDirRUnlock", {}), !.readers[Top.node] = @ + 1]
    /\ UNCHANGED <<nt, processVars, mk, pg, pr>>

\* IsDir returns n.Kind == KindFolder, its deferred n.RUnlock() runs; Count
\* returns 1 for a node that is no folder and ranges over n.Nodes for a
\* folder.
IsDirRUnlock ==
    /\ Ru.stack # <<>>
    /\ Top.at = "IsDirRUnlock"
    /\ fd' = IF IsDir(nt.heap[Top.node])
             THEN [Ru EXCEPT !.readers[Top.node] = @ - 1,
                             !.stack = TopAt("range", {Kids(nt, Top.node)[k] : k \in DOMAIN Kids(nt, Top.node)})]
             ELSE [Ru EXCEPT !.readers[Top.node] = @ - 1,
                             !.stack = TopAt("return", {}), !.total = @ + 1]
    /\ UNCHANGED <<nt, processVars, mk, pg, pr>>

\* Count: total += child.Count() for the next child of the range
CountChild ==
    /\ Ru.stack # <<>>
    /\ Top.at = "range"
    /\ \E c \in Top.todo :
          fd' = [Ru EXCEPT !.stack = Append(TopAt("range", Top.todo \ {c}),
                                            [node |-> c, at |-> "RLock", todo |-> {}])]
    /\ UNCHANGED <<nt, processVars, mk, pg, pr>>

\* Count returns: its deferred n.RUnlock() runs.
CountReturn ==
    /\ Ru.stack # <<>>
    /\ Top.at = "return" \/ (Top.at = "range" /\ Top.todo = {})
    /\ fd' = [Ru EXCEPT !.readers[Top.node] = @ - 1,
                        !.stack = SubSeq(Ru.stack, 1, Len(Ru.stack) - 1),
                        !.result = IF Len(Ru.stack) = 1 THEN "returned" ELSE "none"]
    /\ UNCHANGED <<nt, processVars, mk, pg, pr>>

\* Sync calls parent.addChild(child) or parent.removeChild(child) for a
\* child of a folder: n.Lock() waits for the readers.
ChildLock ==
    /\ Ru.w.at = "idle"
    /\ Ru.writes < MaxTicks + 1
    /\ \E p \in Folders(nt), op \in {"addChild", "removeChild"} :
          \E k \in DOMAIN Kids(nt, p) :
             fd' = [Ru EXCEPT !.w = [at |-> "Lock", node |-> p, op |-> op, child |-> Kids(nt, p)[k]],
                              !.pending[p] = TRUE, !.writes = @ + 1]
    /\ UNCHANGED <<nt, processVars, mk, pg, pr>>

\* n.Lock() returns when no reader and no writer holds the lock.
ChildLocked ==
    /\ Ru.w.at = "Lock"
    /\ Ru.readers[Ru.w.node] = 0
    /\ ~Ru.writer[Ru.w.node]
    /\ fd' = [Ru EXCEPT !.w.at = "locked", !.pending[Ru.w.node] = FALSE,
                        !.writer[Ru.w.node] = TRUE]
    /\ UNCHANGED <<nt, processVars, mk, pg, pr>>

\* addChild or removeChild changes n.Nodes and returns: the deferred
\* n.Unlock() runs.
ChildUnlock ==
    /\ Ru.w.at = "locked"
    /\ nt' = IF Ru.w.op = "addChild"
             THEN addChild(nt, Ru.w.node, Ru.w.child)
             ELSE removeChild(nt, Ru.w.node, nt.heap[Ru.w.child].Name)
    /\ fd' = [Ru EXCEPT !.w = [at |-> "idle", node |-> 0, op |-> "none", child |-> 0],
                        !.writer[Ru.w.node] = FALSE]
    /\ UNCHANGED <<processVars, mk, pg, pr>>

NextRollup ==
    \/ CountCall
    \/ CountRLock
    \/ IsDirRLock
    \/ IsDirRUnlock
    \/ CountChild
    \/ CountReturn
    \/ ChildLock
    \/ ChildLocked
    \/ ChildUnlock

SpecRollup == InitRoot /\ [][NextRollup]_vars

\* C38: a Count (or Size) on a folder that runs while addChild or
\* removeChild is called on the folder never waits for a lock of a node
\* that it holds while a writer is queued on that lock.
C38_RollupCompletes ==
    ~(/\ Ru.stack # <<>>
      /\ Top.at = "IsDir"
      /\ Ru.readers[Top.node] > 0
      /\ Ru.pending[Top.node])

(***************************************************************************)
(* client.New.  fd.config is the config New is called with, fd.at the      *)
(* statement New is at, fd.loops the background loops that were started    *)
(* and have not returned, fd.readers the read locks held on                *)
(* c.config.mutex, fd.result what New returned.                            *)
(***************************************************************************)

\* the configs: a duration is one that parses or one that does not, the
\* other strings are empty or not
Configs ==
    [CacheFile : {"", "cache"}, Timeout : {"0", "x"}, RefreshToken : {"", "token"},
     PurgeTrashInterval : {"", "1h", "x"}, SyncInterval : {"30s", "x"}]

\* time.ParseDuration
ParseDuration(str) == IF str = "x" THEN "ErrParseDuration" ELSE "nil"

NewReturns(f, r) == [f EXCEPT !.at = "returned", !.result = r]

\* New is called.
NewCall ==
    /\ fd = NoFind
    /\ \E config \in Configs :
          fd' = [at |-> "validate", config |-> config, loops |-> {}, readers |-> 0,
                 result |-> "none"]
    /\ UNCHANGED <<nt, processVars, mk, pg, pr>>

\* New: the cache file must be named and the timeout must parse.
NewValidate ==
    /\ fd # NoFind
    /\ fd.at = "validate"
    /\ fd' = IF fd.config.CacheFile = ""
             THEN NewReturns(fd, "ErrCacheFileConfigEmpty")
             ELSE IF ParseDuration(fd.config.Timeout) # "nil"
             THEN NewReturns(fd, ParseDuration(fd.config.Timeout))
             ELSE [fd EXCEPT !.at = "refreshToken"]
    /\ UNCHANGED <<nt, processVars, mk, pg, pr>>

\* New: with a refresh token, RefreshToken is called and its error
\* returned; otherwise the loop that refreshes the token is started.
NewRefreshToken ==
    /\ fd # NoFind
    /\ fd.at = "refreshToken"
    /\ \/ /\ fd.config.RefreshToken = ""
          /\ fd' = [fd EXCEPT !.at = "setEndpoints"]
       \/ /\ fd.config.RefreshToken # ""
          /\ \E e \in RefreshErrors : fd' = NewReturns(fd, e)
       \/ /\ fd.config.RefreshToken # ""
          /\ fd' = [fd EXCEPT !.at = "setEndpoints", !.loops = @ \cup {"refreshToken"}]
    /\ UNCHANGED <<nt, processVars, mk, pg, pr>>

\* New: the error of setEndpoints is returned.
NewSetEndpoints ==
    /\ fd # NoFind
    /\ fd.at = "setEndpoints"
    /\ \/ \E e \in {"ErrDoingHTTPRequest", "ErrJSONDecodingResponseBody"} : fd' = NewReturns(fd, e)
       \/ fd' = [fd EXCEPT !.at = "purgeTrash"]
    /\ UNCHANGED <<nt, processVars, mk, pg, pr>>

\* New: c.config.mutex.RLock(); with a purge interval, the error of
\* ParseDuration is returned, otherwise the loop that purges the trash is
\* started; c.config.mutex.RUnlock().
NewPurgeTrash ==
    /\ fd # NoFind
    /\ fd.at = "purgeTrash"
    /\ fd' = IF fd.config.PurgeTrashInterval = ""
             THEN [fd EXCEPT !.at = "newTree"]
             ELSE IF ParseDuration(fd.config.PurgeTrashInterval) # "nil"
             THEN [NewReturns(fd, ParseDuration(fd.config.PurgeTrashInterval))
                      EXCEPT !.readers = @ + 1]
             ELSE [fd EXCEPT !.at = "newTree", !.loops = @ \cup {"purgeTrash"}]
    /\ UNCHANGED <<nt, processVars, mk, pg, pr>>

\* New: the error of ParseDuration for the sync interval is returned, or
\* the error of NewTree (its first Sync failed), or NewTree has started the
\* loop that syncs and New returns the client.
NewNodeTree ==
    /\ fd # NoFind
    /\ fd.at = "newTree"
    /\ \/ /\ ParseDuration(fd.config.SyncInterval) # "nil"
          /\ fd' = NewReturns(fd, ParseDuration(fd.config.SyncInterval))
       \/ /\ ParseDuration(fd.config.SyncInterval) = "nil"
          /\ fd' = NewReturns(fd, "ErrDoingHTTPRequest")
       \/ /\ ParseDuration(fd.config.SyncInterval) = "nil"
          /\ fd' = [NewReturns(fd, "client") EXCEPT !.loops = @ \cup {"sync"}]
    /\ UNCHANGED <<nt, processVars, mk, pg, pr>>

NextNew ==
    \/ NewCall
    \/ NewValidate
    \/ NewRefreshToken
    \/ NewSetEndpoints
    \/ NewPurgeTrash
    \/ NewNodeTree

SpecNew == InitUpload /\ [][NextNew]_vars

\* C39: when New returns an error, no background loop is running and no
\* lock of the config is held.
C39_FailedNewLeavesNothing ==
    (fd # NoFind /\ fd.at = "returned" /\ fd.result # "client") =>
        /\ fd.loops = {}
        /\ fd.readers = 0

(***************************************************************************)
(* MkDirAll called again with the path of a call that a create-folder      *)
(* request failed.  fd.first is the record of the first call.              *)
(***************************************************************************)

\* MkDirAll(path) up to its loop, for the path of a first call that
\* returned the error of CreateFolder.
MkDirAllRetry ==
    /\ fd = NoFind
    /\ mk.state = "returned"
    /\ mk.call = 1
    /\ mk.result \in CreateFolderErrors
    /\ LET segs == SelectSeq(mk.path, LAMBDA seg : seg # "")
           j == Resolved(nt, segs)
           m == [mk EXCEPT !.call = @ + 1, !.parts = Trim(mk.path),
                           !.i = 1, !.folderNode = nt.Node, !.requests = <<>>,
                           !.result = "none", !.node = "", !.before = nt,
                           !.found = FindNode(nt, SubSeq(segs, 1, j)).node,
                           !.missing = SubSeq(segs, j + 1, Len(segs))]
           f == FindNode(nt, mk.path)
       IN  mk' = IF f.err = "nil"
                 THEN IF IsDir(nt.heap[f.node])
                      THEN MkDirAllReturns(m, "nil", nt.heap[f.node].Id)
                      ELSE MkDirAllReturns(m, "ErrFileExistsAndIsNotFolder", "")
                 ELSE [m EXCEPT !.state = "loop"]
    /\ fd' = [calls |-> 1, first |-> mk]
    /\ nt' = nt
    /\ UNCHANGED <<processVars, pg, pr>>

NextMkDirRetry ==
    \/ MkDirAllCall
    \/ MkDirAllStep
    \/ MkDirAllDone
    \/ MkDirAllRetry

SpecMkDirRetry == InitMkDirAll /\ [][NextMkDirRetry]_vars

\* the first call, while it is the only one and afterwards
FirstCall == IF fd = NoFind THEN mk ELSE fd.first

\* the first call returned the error of a create-folder request
CreateFailed ==
    /\ FirstCall.call = 1
    /\ FirstCall.state = "returned"
    /\ FirstCall.result \in CreateFolderErrors

\* C40: when the create-folder request for the k-th missing segment fails,
\* MkDirAll returns its error and sends no request for a later segment; the
\* folders created for the segments before are in the index and under
\* their parents; and the next MkDirAll of the path sends its requests for
\* the segment k and those after it only, the first under the folder of
\* segment k - 1.
C40_MkDirAllResumes ==
    CreateFailed =>
        LET F == FirstCall
            k == Len(F.requests)
        IN  /\ k >= 1
            /\ k <= Len(F.missing)
            /\ F.requests[k].id = ""
            /\ \A n \in 1..(k - 1) :
                  /\ F.requests[n].id # ""
                  /\ F.requests[n].name = F.missing[n]
                  /\ CreatedAndLinked(nt, F.requests[n])
            /\ fd # NoFind =>
                  /\ Len(mk.requests) <= Len(F.missing) - k + 1
                  /\ \A n \in 1..Len(mk.requests) :
                        /\ mk.requests[n].name = F.missing[k - 1 + n]
                        /\ mk.requests[n].parent =
                               IF n > 1 THEN mk.requests[n - 1].id
                               ELSE IF k > 1 THEN F.requests[k - 1].id
                               ELSE F.before.heap[F.found].Id
                  /\ (mk.state = "returned" /\ mk.result = "nil") =>
                        /\ Len(mk.requests) = Len(F.missing) - k + 1
                        /\ FindNode(nt, mk.path) = [err |-> "nil", node |-> nt.nodeIdMap[mk.node]]

\* MkDirAll of Doc/Pic/Pic created the first Pic and failed for the second;
\* the next call created the second Pic only, under the first.
C40_Witness ==
    /\ CreateFailed
    /\ fd # NoFind
    /\ Len(fd.first.requests) = 2
    /\ fd.first.requests[1].id = "c1"
    /\ mk.state = "returned"
    /\ mk.result = "nil"
    /\ Len(mk.requests) = 1
    /\ mk.requests[1].parent = "c1"
    /\ mk.node = "c2"

====
